---- MODULE Spec2Model ----
(***************************************************************************)
(* Acta: the AI session manager of electron/main.cjs.                      *)
(*                                                                         *)
(* Strings are finite sequences of atoms (an atom is a run of characters   *)
(* that the code never splits); "" is <<>>.  The registry aiSessions holds *)
(* the keys of the Map; sess is the heap of session objects, which the     *)
(* callbacks of a turn keep reaching after the key has been deleted.       *)
(* kids is the sequence of child processes in spawn order, each with the   *)
(* closure variables of the runAiTurn call that spawned it.                *)
(* ret is what the handler of the latest step returned or threw; quit is   *)
(* set once app.quit() has been called.                                    *)
(* pq is one call of the argument selection of runAiTurn taken on its own: *)
(* the session it is given, the input, and the plan it computed.           *)
(* files[d] is the text of the file of day d in the data directory,        *)
(* dirExists whether that directory exists, clock the time of the system   *)
(* clock, uuidCount how many ids randomUUID has handed out, updateCount    *)
(* how many updates have rewritten a file, sret what the latest call of    *)
(* the entry store returned or threw.                                      *)
(* adders are the calls of addEntry in flight.  sync is one call of        *)
(* syncBackup: the git command it awaits (pc), what that child has printed *)
(* so far, the commands that have finished with their results (ran), the   *)
(* children whose 'close' is still to come after their 'error' (stale),    *)
(* and the value the call returned (result).                               *)
(* History variables: gotOutput[s] - a read returned text since the last   *)
(* turn of s was started; historyKid[s] - the child whose close handler    *)
(* appended each element of sess[s].history; sendLog[s] - which inputs     *)
(* send has been called with on s so far.                                  *)
(***************************************************************************)
EXTENDS Integers, Sequences, FiniteSets, TLC

VARIABLES aiSessions, sess, kids, ret, quit, gotOutput, historyKid, sendLog,
          pq,
          files, dirExists, clock, uuidCount, updateCount, sret,
          adders, sync

vars == <<aiSessions, sess, kids, ret, quit, gotOutput, historyKid, sendLog,
          pq,
          files, dirExists, clock, uuidCount, updateCount, sret,
          adders, sync>>

\* the variables of the session manager
aiVars == <<aiSessions, sess, kids, ret, quit, gotOutput, historyKid, sendLog>>

\* what the session manager never touches
nonAiVars == <<pq, files, dirExists, clock, uuidCount, updateCount, sret, adders, sync>>

\* the variables of the entry store
storeVars == <<files, dirExists, clock, uuidCount, updateCount, sret, adders, sync>>

(* ------------------------------ bounds --------------------------------- *)
MaxSessions == 1
MaxKids == 3
MaxData == 1
MaxHistory == 22
MaxDay == 2
MaxAdds == 2
MaxUpdates == 1
MaxProcs == 2
MaxGitData == 1

\* history.slice(-20)
HistoryWindow == 20

(* ------------------------------ strings -------------------------------- *)
IsSpace(ch) == ch \in {" ", "\n", "\r\n"}

RECURSIVE TrimStart(_)
TrimStart(s) ==
  IF s = <<>> THEN s
  ELSE IF IsSpace(Head(s)) THEN TrimStart(Tail(s)) ELSE s

RECURSIVE TrimEnd(_)
TrimEnd(s) ==
  IF s = <<>> THEN s
  ELSE IF IsSpace(s[Len(s)]) THEN TrimEnd(SubSeq(s, 1, Len(s) - 1)) ELSE s

\* String.prototype.trim
Trim(s) == TrimEnd(TrimStart(s))

\* Array.prototype.join with separator sep
RECURSIVE Join(_, _)
Join(ss, sep) ==
  IF ss = <<>> THEN <<>>
  ELSE IF Len(ss) = 1 THEN ss[1]
  ELSE ss[1] \o sep \o Join(Tail(ss), sep)

\* String.prototype.indexOf("\n"), 0 when absent, else the 1-based position
RECURSIVE IndexOfNewline(_, _)
IndexOfNewline(s, i) ==
  IF i > Len(s) THEN 0
  ELSE IF s[i] = "\n" THEN i ELSE IndexOfNewline(s, i + 1)

(* ------------------------------ inputs --------------------------------- *)
Inputs == { <<" ">>, <<" ", "a">> }

CliPaths == { <<" ">>,
              <<"/", "claude", "/", "codex">>,
              <<"/", "bin", "/", "my-", "CLAUDE">> }

\* JSON event lines a CLI may print on stdout
ThreadStartedT1 == "{type:thread.started,thread_id:T1}"
ThreadStartedBlank == "{type:thread.started,thread_id:}"
TurnCompleted == "{type:turn.completed}"

JsonObjects == { ThreadStartedT1, ThreadStartedBlank, TurnCompleted }

PlainChunks == { <<"x">> }
StdoutChunks == PlainChunks \cup { <<ThreadStartedT1, "\n">>, <<ThreadStartedT1>> }
StderrChunks == { <<"e">> }
FileTexts == { <<>>, <<"y", "\n">> }

CodeNull == "null"
ExitCodes == { "0", "1", CodeNull }
SpawnErrorCode == "-2"
SpawnErrorMessage == <<"spawn ENOENT">>

NoWorker == 0

(* ------------------------------ helpers -------------------------------- *)
\* path.basename: the atoms after the last "/"
RECURSIVE Basename(_)
Basename(p) ==
  IF p = <<>> THEN <<>>
  ELSE IF p[Len(p)] = "/" THEN <<>>
  ELSE Basename(SubSeq(p, 1, Len(p) - 1)) \o <<p[Len(p)]>>

\* String.prototype.toLowerCase on one atom
LowerAtom(a) == IF a = "CLAUDE" THEN "claude" ELSE a

ToLowerCase(s) == [i \in 1..Len(s) |-> LowerAtom(s[i])]

\* detectAiCliKind without toLowerCase
detectAiCliKind_caseSensitive(cliPath) ==
  LET binName == Basename(cliPath)
  IN  IF \E i \in 1..Len(binName) : binName[i] = "claude" THEN "claude" ELSE "codex"

detectAiCliKind(cliPath) ==
  LET binName == ToLowerCase(Basename(cliPath))
  IN  IF \E i \in 1..Len(binName) : binName[i] = "claude" THEN "claude" ELSE "codex"

\* JSON.parse of one object atom
JsonParse(a) ==
  IF a = ThreadStartedT1 THEN [type |-> "thread.started", thread_id |-> <<"T1">>]
  ELSE IF a = ThreadStartedBlank THEN [type |-> "thread.started", thread_id |-> <<" ">>]
  ELSE [type |-> "turn.completed", thread_id |-> <<>>]

NoEvent == [type |-> "none", thread_id |-> <<>>]

parseJsonLine(line) ==
  LET text == Trim(line)
  IN  IF Len(text) = 1 /\ text[1] \in JsonObjects THEN JsonParse(text[1]) ELSE NoEvent

captureCodexThreadIdFromLine(S, line) ==
  LET event == parseJsonLine(line)
  IN  IF event = NoEvent THEN S
      ELSE IF event.type = "thread.started"
        THEN LET id == Trim(event.thread_id)
             IN  IF id # <<>> THEN [S EXCEPT !.codexThreadId = id] ELSE S
        ELSE S

\* the while loop of the stdout 'data' handler
RECURSIVE DrainLines(_, _)
DrainLines(S, pending) ==
  LET idx == IndexOfNewline(pending, 1)
  IN  IF idx = 0 THEN [S |-> S, pending |-> pending]
      ELSE DrainLines(captureCodexThreadIdFromLine(S, SubSeq(pending, 1, idx - 1)),
                      SubSeq(pending, idx + 1, Len(pending)))

RECURSIVE HistoryLines(_)
HistoryLines(turns) ==
  IF turns = <<>> THEN <<>>
  ELSE << <<"user: ">> \o turns[1].user,
          <<"assistant: ">> \o turns[1].assistant,
          <<>> >> \o HistoryLines(Tail(turns))

\* history.slice without the window
Recent_unbounded(history) == history

Recent(history) ==
  IF Len(history) <= HistoryWindow THEN history
  ELSE SubSeq(history, Len(history) - HistoryWindow + 1, Len(history))

buildAiPrompt(S, input) ==
  LET recent == Recent(S.history)
      l1 == IF S.systemInstruction # <<>>
              THEN << <<"# instruction">>, S.systemInstruction, <<>> >>
              ELSE <<>>
      l2 == IF Len(recent) > 0
              THEN << <<"# history">> >> \o HistoryLines(recent)
              ELSE <<>>
      l3 == << <<"# input">>, input, <<>>, <<"answer in Japanese">> >>
  IN  Join(l1 \o l2 \o l3, <<"\n">>)

(* --------------------------- session objects --------------------------- *)
newSession(binPath) ==
  [ cliPath |-> binPath,
    systemInstruction |-> <<>>,
    needsBootstrap |-> TRUE,
    codexThreadId |-> <<>>,
    history |-> <<>>,
    chunks |-> <<>>,
    alive |-> TRUE,
    busy |-> FALSE,
    worker |-> NoWorker,
    exitCode |-> CodeNull,
    error |-> <<>> ]

\* the key an IPC caller may pass: 0 is the blank key, 1..MaxSessions the UUIDs
\* that start can hand out, MaxSessions + 1 a key that start never returned
BlankKey == 0
Keys == 0..(MaxSessions + 1)

getAiSessionOrThrow(id) ==
  IF id = BlankKey THEN "InvalidSessionId"
  ELSE IF id \notin aiSessions THEN "SessionNotFound"
  ELSE "found"

\* sendRejection with the busy guard left out
sendRejection_noBusyGuard(S) ==
  IF ~S.alive THEN "SessionEnded" ELSE "none"

\* the two guards at the head of writeAiSessionInput
sendRejection(S) ==
  IF ~S.alive THEN "SessionEnded"
  ELSE IF S.busy THEN "SessionBusy"
  ELSE "none"

\* the blank test without trim()
isBlankInput_untrimmed(text) == text = <<>>

\* if (!text.trim()) return { sent: false }
isBlankInput(text) == Trim(text) = <<>>

\* bootstrap storing the trimmed input instead of the input itself
bootstrap_trimmed(S, text) ==
  [S EXCEPT !.systemInstruction = Trim(text), !.needsBootstrap = FALSE]

\* the needsBootstrap branch of writeAiSessionInput
bootstrap(S, text) ==
  [S EXCEPT !.systemInstruction = text, !.needsBootstrap = FALSE]

\* argument selection of runAiTurn
turnPlan(S, input) ==
  LET cliKind == detectAiCliKind(S.cliPath)
  IN  IF cliKind = "claude"
        THEN [ cliKind |-> cliKind, args |-> <<"--print">>,
               prompt |-> buildAiPrompt(S, input),
               useOutputFile |-> FALSE, parseThreadIdFromStdout |-> FALSE ]
      ELSE IF S.codexThreadId # <<>>
        THEN [ cliKind |-> cliKind,
               args |-> <<"exec", "resume", "--skip-git-repo-check">>
                          \o S.codexThreadId \o <<"-">>,
               prompt |-> input,
               useOutputFile |-> FALSE, parseThreadIdFromStdout |-> FALSE ]
      ELSE [ cliKind |-> cliKind,
             args |-> <<"exec", "--skip-git-repo-check", "-C", "dataDir",
                        "--color", "never", "--json", "-o", "outPath", "-">>,
             prompt |-> buildAiPrompt(S, input),
             useOutputFile |-> TRUE, parseThreadIdFromStdout |-> TRUE ]

\* session.busy = true; session.exitCode = null; session.error = ""
turnBegin(S) ==
  [S EXCEPT !.busy = TRUE, !.exitCode = CodeNull, !.error = <<>>]

NoPlan ==
  [ cliKind |-> "none", args |-> <<>>, prompt |-> <<>>,
    useOutputFile |-> FALSE, parseThreadIdFromStdout |-> FALSE ]

newKid(sid, input, plan, status) ==
  [ sid |-> sid, input |-> input,
    cliKind |-> plan.cliKind, args |-> plan.args, prompt |-> plan.prompt,
    useOutputFile |-> plan.useOutputFile,
    parseThreadIdFromStdout |-> plan.parseThreadIdFromStdout,
    status |-> status,
    stdoutText |-> <<>>, stderrText |-> <<>>, stdoutPending |-> <<>>,
    nOut |-> 0, nErr |-> 0,
    killed |-> FALSE, code |-> CodeNull ]

\* the 'error' handler without session.busy = false
onError_keepsBusy(S, msg) ==
  LET e == IF msg # <<>> THEN msg ELSE <<"failed to run">>
  IN  [S EXCEPT !.error = e,
                !.chunks = Append(@, <<"\n[error] ">> \o e \o <<"\n">>),
                !.exitCode = "1",
                !.worker = NoWorker]

\* the 'error' handler of the child
onError(S, msg) ==
  LET e == IF msg # <<>> THEN msg ELSE <<"failed to run">>
  IN  [S EXCEPT !.error = e,
                !.chunks = Append(@, <<"\n[error] ">> \o e \o <<"\n">>),
                !.busy = FALSE,
                !.exitCode = "1",
                !.worker = NoWorker]

\* the 'close' handler after its awaits: bookkeeping, then success or soft failure
onCloseFinish(S, kid, code, answer) ==
  LET S1 == [S EXCEPT !.exitCode = code, !.busy = FALSE, !.worker = NoWorker]
  IN  IF ~S1.alive THEN S1
      ELSE IF S1.exitCode = "0" /\ answer # <<>>
        THEN [S1 EXCEPT !.history = Append(@, [user |-> kid.input, assistant |-> answer]),
                        !.chunks = Append(@, answer \o <<"\n">>)]
      ELSE
        LET S2 == IF kid.cliKind = "codex" THEN [S1 EXCEPT !.codexThreadId = <<>>] ELSE S1
            fallback == IF answer # <<>> THEN answer
                        ELSE IF Trim(kid.stderrText) # <<>> THEN Trim(kid.stderrText)
                        ELSE Trim(kid.stdoutText)
            S3 == IF fallback # <<>>
                    THEN [S2 EXCEPT !.chunks = Append(@, <<"\n[log]\n">> \o fallback \o <<"\n">>)]
                    ELSE S2
            shown == IF S3.exitCode = CodeNull THEN "?" ELSE S3.exitCode
        IN  IF S3.exitCode # "0"
              THEN [S3 EXCEPT !.chunks = Append(@, <<"\n[AI failed: code=", shown, "]\n">>)]
              ELSE S3

\* the closure of a turn is unreachable once its close handler has returned
closed(kid) ==
  [ newKid(kid.sid, <<>>, NoPlan, "done") EXCEPT !.killed = kid.killed ]

\* readAiSession without chunks.length = 0
readAiSession_keepsQueue(S) ==
  [ S |-> S,
    out |-> [ chunk |-> Join(S.chunks, <<>>),
              alive |-> S.alive,
              busy |-> S.busy,
              exitCode |-> S.exitCode,
              error |-> S.error ] ]

\* readAiSession: join and clear the queue, snapshot the flags
readAiSession(S) ==
  [ S |-> [S EXCEPT !.chunks = <<>>],
    out |-> [ chunk |-> Join(S.chunks, <<>>),
              alive |-> S.alive,
              busy |-> S.busy,
              exitCode |-> S.exitCode,
              error |-> S.error ] ]

\* stopAiSession on the session object
stopSession(S) == [S EXCEPT !.alive = FALSE, !.busy = FALSE]

kill(ks, w) == IF w = NoWorker THEN ks ELSE [ks EXCEPT ![w].killed = TRUE]

(* ------------------------------ results -------------------------------- *)
NoOut == [chunk |-> <<>>, alive |-> FALSE, busy |-> FALSE, exitCode |-> CodeNull, error |-> <<>>]
Ret(res) == [res |-> res, out |-> NoOut]
NoCall == Ret("none")

(* ======================================================================= *)
(*                     the entry store (electron/storage.cjs)              *)
(* ======================================================================= *)
(* A day file is a sequence of atoms.  The markers of a block, the keys of *)
(* its header lines, ":", ",", "#", " " and the line ends are atoms of     *)
(* their own, so that the regular expressions of the codec can be applied  *)
(* to the text as they are applied to the characters.                      *)
OPEN == "<!-- acta:comment"
ENDMETA == "-->"
CLOSE == "<!-- /acta:comment -->"
CRLF == "\r\n"

DateAtoms == <<"2024-01-01", "2024-01-02", "2024-01-03">>
TimeAtoms == <<"00:00">>
UuidAtoms == <<"u1", "u2", "u3", "u4">>
LegacyUuid == "u0"

\* the clock in ticks: TicksPerMinute ticks a minute, MinutesPerDay minutes a day
\* (a day is cut down to its first minute); day d begins at tick d * TicksPerDay
TicksPerMinute == 2
MinutesPerDay == 1
TicksPerDay == TicksPerMinute * MinutesPerDay
FirstTick == TicksPerDay
LastTick == (MaxDay + 1) * TicksPerDay - 1
Ticks == FirstTick..LastTick

DayOf(t) == t \div TicksPerDay
MinuteOf(t) == (t % TicksPerDay) \div TicksPerMinute

\* formatDate, formatTime, formatDateTime
formatDate(t) == <<DateAtoms[DayOf(t)]>>
formatTime(t) == <<TimeAtoms[MinuteOf(t) + 1]>>
formatDateTime(t) == formatDate(t) \o <<" ">> \o formatTime(t)

\* the least element of a set of positions, 0 for the empty set
FirstIdx(P) == IF P = {} THEN 0 ELSE CHOOSE i \in P : \A j \in P : i <= j
LastIdx(P) == IF P = {} THEN 0 ELSE CHOOSE i \in P : \A j \in P : j <= i

\* the first position k >= from with t[k] = a, 0 if none
RECURSIVE IndexOfAtom(_, _, _)
IndexOfAtom(t, from, a) ==
  IF from > Len(t) THEN 0
  ELSE IF t[from] = a THEN from
  ELSE IndexOfAtom(t, from + 1, a)

\* the first position k >= from with t[k] = a and t[k + 1] = b, 0 if none
RECURSIVE IndexOfPair(_, _, _, _)
IndexOfPair(t, from, a, b) ==
  IF from >= Len(t) THEN 0
  ELSE IF t[from] = a /\ t[from + 1] = b THEN from
  ELSE IndexOfPair(t, from + 1, a, b)

\* replace(/\r\n/g, "\n")
normalizeNewlines(s) ==
  SubSeq([i \in 1..Len(s) |-> IF s[i] = CRLF THEN "\n" ELSE s[i]], 1, Len(s))

\* Number(text): the value of a decimal atom, 0 for "" and NaN (both falsy)
Number(v) ==
  IF Len(v) = 1 /\ \E n \in 0..LastTick : ToString(n) = v[1]
    THEN CHOOSE n \in 0..LastTick : ToString(n) = v[1]
    ELSE 0

parseCreatedToMs(created) ==
  LET s == Trim(created)
      dayOf(a) == FirstIdx({d \in 1..Len(DateAtoms) : DateAtoms[d] = a})
      minOf(a) == FirstIdx({m \in 1..Len(TimeAtoms) : TimeAtoms[m] = a})
  IN  IF Len(s) = 1 /\ dayOf(s[1]) # 0
        THEN dayOf(s[1]) * TicksPerDay
      ELSE IF Len(s) = 3 /\ dayOf(s[1]) # 0 /\ s[2] = " " /\ minOf(s[3]) # 0
        THEN dayOf(s[1]) * TicksPerDay + (minOf(s[3]) - 1) * TicksPerMinute
      ELSE 0

\* replace(/\s+/g, " ")
RECURSIVE CollapseSpaces(_)
CollapseSpaces(s) ==
  IF s = <<>> THEN <<>>
  ELSE IF IsSpace(Head(s))
    THEN <<" ">> \o CollapseSpaces(TrimStart(s))
    ELSE <<Head(s)>> \o CollapseSpaces(Tail(s))

\* the tag markers of /^[#＃]/: "#" and the full-width number sign U+FF03
FullWidthHash == "U+FF03"
TagMarkers == {"#", FullWidthHash}

normalizeTag(raw) ==
  LET t1 == IF raw # <<>> /\ Head(raw) \in TagMarkers THEN Tail(raw) ELSE raw
  IN  Trim(CollapseSpaces(t1))

\* String.prototype.split on ","
RECURSIVE SplitComma(_)
SplitComma(s) ==
  LET i == IndexOfAtom(s, 1, ",")
  IN  IF i = 0 THEN <<s>>
      ELSE <<SubSeq(s, 1, i - 1)>> \o SplitComma(SubSeq(s, i + 1, Len(s)))

\* .filter(Boolean) on strings
RECURSIVE FilterNonEmpty(_)
FilterNonEmpty(ss) ==
  IF ss = <<>> THEN <<>>
  ELSE IF Head(ss) = <<>> THEN FilterNonEmpty(Tail(ss))
  ELSE <<Head(ss)>> \o FilterNonEmpty(Tail(ss))

\* Array.from(new Set(xs)): first occurrences, in order
RECURSIVE Dedupe(_)
Dedupe(xs) ==
  IF xs = <<>> THEN <<>>
  ELSE LET r == Dedupe(SubSeq(xs, 1, Len(xs) - 1))
           x == xs[Len(xs)]
       IN  IF \E i \in 1..Len(r) : r[i] = x THEN r ELSE Append(r, x)

MapNormalizeTag(ts) == SubSeq([i \in 1..Len(ts) |-> normalizeTag(ts[i])], 1, Len(ts))

parseTags(raw) ==
  IF Trim(raw) = <<>> THEN <<>>
  ELSE Dedupe(FilterNonEmpty(MapNormalizeTag(SplitComma(raw))))

\* tags.map(normalizeTag).filter(Boolean) deduplicated, as addEntry and updateEntry do
cleanTagsOf(tags) == Dedupe(FilterNonEmpty(MapNormalizeTag(tags)))

(* ------------------------------ the codec ------------------------------ *)
formatEntryBlock(e) ==
  LET tagLine == Join(FilterNonEmpty(MapNormalizeTag(e.tags)), <<",", " ">>)
      cleanBody == TrimEnd(normalizeNewlines(e.body))
  IN  <<OPEN, "\n">>
      \o <<"id", ":", " ">> \o e.id \o <<"\n">>
      \o <<"created", ":", " ">> \o e.created \o <<"\n">>
      \o <<"created_ms", ":", " ", ToString(e.createdAtMs), "\n">>
      \o <<"tags", ":", " ">> \o tagLine \o <<"\n">>
      \o <<ENDMETA, "\n">>
      \o cleanBody \o <<"\n">>
      \o <<CLOSE, "\n", "\n">>

\* the last position of the run of white space that begins at j (j - 1 if none)
RECURSIVE SpaceRunEnd(_, _)
SpaceRunEnd(t, j) ==
  IF j <= Len(t) /\ IsSpace(t[j]) THEN SpaceRunEnd(t, j + 1) ELSE j - 1

\* the run of "\n" that begins at j
RECURSIVE NewlineRunEnd(_, _)
NewlineRunEnd(t, j) ==
  IF j <= Len(t) /\ t[j] = "\n" THEN NewlineRunEnd(t, j + 1) ELSE j - 1

\* metaBlock.split("\n")
RECURSIVE SplitLines(_)
SplitLines(s) ==
  LET i == IndexOfAtom(s, 1, "\n")
  IN  IF i = 0 THEN <<s>>
      ELSE <<SubSeq(s, 1, i - 1)>> \o SplitLines(SubSeq(s, i + 1, Len(s)))

\* the keys that the codec reads from the header of a block
MetaKeys == {"id", "created", "created_ms", "tags"}

\* /^\s*([a-zA-Z0-9_]+)\s*:\s*(.*?)\s*$/ on one line
parseMetaLine(line) ==
  LET l == TrimStart(line)
      r == IF l = <<>> THEN <<>> ELSE TrimStart(Tail(l))
  IN  IF l # <<>> /\ Head(l) \in MetaKeys /\ r # <<>> /\ Head(r) = ":"
        THEN [ok |-> TRUE, key |-> Head(l), value |-> Trim(Tail(r))]
        ELSE [ok |-> FALSE, key |-> "", value |-> <<>>]

\* const meta = {} (a key that is not set reads as "")
NoMeta == [k \in MetaKeys |-> <<>>]

\* the loop over the lines of the header: a later line overrides an earlier one
RECURSIVE parseMeta(_, _)
parseMeta(lines, meta) ==
  IF lines = <<>> THEN meta
  ELSE LET pl == parseMetaLine(Head(lines))
       IN  parseMeta(Tail(lines), IF pl.ok THEN [meta EXCEPT ![pl.key] = pl.value] ELSE meta)

NoMatch == [ok |-> FALSE, index |-> 0, meta |-> NoMeta,
            bodyFrom |-> 0, bodyTo |-> 0, end |-> 0, endNl |-> 0]

\* the block expression applied at position i:
\* <!--\s*acta:comment\s*\n ([\s\S]*?) -->\n ([\s\S]*?) \n<!--\s*\/acta:comment\s*--> \n*
MatchAt(t, i) ==
  IF i < 1 \/ i > Len(t) \/ t[i] # OPEN THEN NoMatch
  ELSE
    LET e == SpaceRunEnd(t, i + 1)
        h == LastIdx({k \in (i + 1)..e : t[k] = "\n"})
        m == IF h = 0 THEN 0 ELSE IndexOfPair(t, h + 1, ENDMETA, "\n")
        c == IF m = 0 THEN 0 ELSE IndexOfPair(t, m + 2, "\n", CLOSE)
    IN  IF h = 0 \/ m = 0 \/ c = 0 THEN NoMatch
        ELSE [ok |-> TRUE, index |-> i,
              meta |-> parseMeta(SplitLines(SubSeq(t, h + 1, m - 1)), NoMeta),
              bodyFrom |-> m + 2, bodyTo |-> c - 1, end |-> c + 1,
              endNl |-> NewlineRunEnd(t, c + 2)]

\* re.exec in a loop from position from; withNl: the expression ends in \n*
RECURSIVE Matches(_, _, _)
Matches(t, from, withNl) ==
  LET i == IndexOfAtom(t, from, OPEN)
      m == MatchAt(t, i)
  IN  IF i = 0 THEN <<>>
      ELSE IF ~m.ok THEN Matches(t, i + 1, withNl)
      ELSE <<m>> \o Matches(t, (IF withNl THEN m.endNl ELSE m.end) + 1, withNl)

\* path.basename(sourceFile) of the file of day d
BaseName(d) == <<DateAtoms[d], ".md">>

NoEntry == [id |-> <<>>, date |-> <<>>, created |-> <<>>, createdAtMs |-> 0,
            tags |-> <<>>, body |-> <<>>, sourceFile |-> 0]

\* Number(meta.created_ms) || parseCreatedToMs(created) || 0
createdAtMsOf(meta, created) ==
  LET n == Number(meta["created_ms"])
  IN  IF n # 0 THEN n ELSE parseCreatedToMs(created)

\* the entry of one match of parseEntriesFromText
entryOfMatch(t, m, date, sourceFile) ==
  LET created == IF m.meta["created"] # <<>> THEN m.meta["created"] ELSE date
  IN  [ id |-> IF m.meta["id"] # <<>> THEN m.meta["id"]
               ELSE BaseName(sourceFile) \o <<":", ToString(m.index - 1)>>,
        date |-> date,
        created |-> created,
        createdAtMs |-> createdAtMsOf(m.meta, created),
        tags |-> parseTags(m.meta["tags"]),
        body |-> TrimEnd(SubSeq(t, m.bodyFrom, m.bodyTo)),
        sourceFile |-> sourceFile ]

parseEntriesFromText(text, date, sourceFile) ==
  LET t == normalizeNewlines(text)
      ms == Matches(t, 1, FALSE)
  IN  SubSeq([i \in 1..Len(ms) |-> entryOfMatch(t, ms[i], date, sourceFile)], 1, Len(ms))

\* the block updateEntryInText writes for a match with the id
updatedBlock(m, id, nextBody, nextTags) ==
  formatEntryBlock([ id |-> id,
                     created |-> m.meta["created"],
                     createdAtMs |-> createdAtMsOf(m.meta, m.meta["created"]),
                     tags |-> nextTags,
                     body |-> nextBody ])

\* the loop of removeEntryFromText (replace = FALSE) and of updateEntryInText
\* (replace = TRUE) over the matches ms of t, from the text after position last
RECURSIVE Rewrite(_, _, _, _, _, _, _)
Rewrite(t, ms, last, id, replace, nextBody, nextTags) ==
  IF ms = <<>> THEN [changed |-> FALSE, out |-> SubSeq(t, last + 1, Len(t))]
  ELSE LET m == Head(ms)
           hit == m.meta["id"] = id
           r == Rewrite(t, Tail(ms), m.endNl, id, replace, nextBody, nextTags)
       IN  [ changed |-> hit \/ r.changed,
             out |-> SubSeq(t, last + 1, m.index - 1)
                     \o (IF ~hit THEN SubSeq(t, m.index, m.endNl)
                         ELSE IF replace THEN updatedBlock(m, id, nextBody, nextTags)
                         ELSE <<>>)
                     \o r.out ]

\* reports a change whatever the blocks are
removeEntryFromText_always(text, id) ==
  [changed |-> TRUE, nextText |-> normalizeNewlines(text)]

removeEntryFromText(text, id) ==
  LET t == normalizeNewlines(text)
      r == Rewrite(t, Matches(t, 1, TRUE), 0, id, FALSE, <<>>, <<>>)
  IN  [changed |-> r.changed, nextText |-> r.out]

updateEntryInText(text, id, nextBody, nextTags) ==
  LET t == normalizeNewlines(text)
      r == Rewrite(t, Matches(t, 1, TRUE), 0, id, TRUE, nextBody, nextTags)
  IN  [changed |-> r.changed, nextText |-> r.out]

(* ------------------------------ the files ------------------------------ *)
\* files[d] when the data directory has no file for day d
NoFile == <<"ENOENT">>

Days == 1..MaxDay

\* names.filter(DATE_FILE_RE).sort(): the day files in file-name order
RECURSIVE DayFiles(_, _)
DayFiles(fs, d) ==
  IF d > MaxDay THEN <<>>
  ELSE (IF fs[d] # NoFile THEN <<d>> ELSE <<>>) \o DayFiles(fs, d + 1)

\* the list without the sort
SortByCreatedDesc_unsorted(es) == es

\* entries.sort((a, b) => b.createdAtMs - a.createdAtMs), a stable sort
RECURSIVE SortByCreatedDesc(_)
SortByCreatedDesc(es) ==
  IF es = <<>> THEN <<>>
  ELSE LET sorted == SortByCreatedDesc(SubSeq(es, 1, Len(es) - 1))
           x == es[Len(es)]
           k == Cardinality({i \in 1..Len(sorted) : sorted[i].createdAtMs >= x.createdAtMs})
       IN  SubSeq(sorted, 1, k) \o <<x>> \o SubSeq(sorted, k + 1, Len(sorted))

RECURSIVE EntriesOfFiles(_, _)
EntriesOfFiles(fs, ds) ==
  IF ds = <<>> THEN <<>>
  ELSE parseEntriesFromText(fs[Head(ds)], <<DateAtoms[Head(ds)]>>, Head(ds))
       \o EntriesOfFiles(fs, Tail(ds))

\* what listEntries returns for the files fs
listed(fs) == SortByCreatedDesc(EntriesOfFiles(fs, DayFiles(fs, 1)))

\* the loop of deleteEntry over the day files: rewrite the first file that changes
RECURSIVE deleteInFiles(_, _, _)
deleteInFiles(fs, ds, id) ==
  IF ds = <<>> THEN [found |-> FALSE, files |-> fs]
  ELSE LET r == removeEntryFromText(fs[Head(ds)], id)
       IN  IF r.changed
             THEN [found |-> TRUE, files |-> [fs EXCEPT ![Head(ds)] = r.nextText]]
             ELSE deleteInFiles(fs, Tail(ds), id)

\* the loop of updateEntry over the day files
RECURSIVE updateInFiles(_, _, _, _, _)
updateInFiles(fs, ds, id, body, tags) ==
  IF ds = <<>> THEN [found |-> FALSE, files |-> fs]
  ELSE LET r == updateEntryInText(fs[Head(ds)], id, body, tags)
       IN  IF r.changed
             THEN [found |-> TRUE, files |-> [fs EXCEPT ![Head(ds)] = r.nextText]]
             ELSE updateInFiles(fs, Tail(ds), id, body, tags)

(* ------------------------------- inputs -------------------------------- *)
\* what a caller may pass as body and tags
Payload(body, tags) == [body |-> body, tags |-> tags]

BlankPayload == Payload(<<" ">>, <<>>)
PlainPayload ==
  Payload(<<" ", "b", "\n">>,
          << <<"t">>, <<" ", "t", " ">>, <<"#", "t">>, <<FullWidthHash, "t">>,
             <<"#">>, <<"#", "u">> >>)

Payloads ==
  { BlankPayload,
    PlainPayload,
    Payload(<<"a", "\n", CLOSE, "\n", "b">>, <<>>),
    Payload(<<"a">>, << <<"t", ",", "u">>, <<"#", "#", "t">> >>) }

\* a day file as another copy of the program and a text editor left it: one
\* block written by addEntry and one hand-written block without an id line
LegacyText ==
  <<"# ", DateAtoms[1], "\n", "\n">>
  \o formatEntryBlock([ id |-> <<LegacyUuid>>, created |-> <<DateAtoms[1]>>,
                        createdAtMs |-> FirstTick, tags |-> << <<"t">> >>, body |-> <<"c">> ])
  \o <<OPEN, "\n", "created", ":", " ", DateAtoms[1], "\n", ENDMETA, "\n",
       "d", "\n", CLOSE, "\n">>

\* the same file with CRLF line ends, as an editor on another system left it
CrlfText == SubSeq([i \in 1..Len(LegacyText) |->
                      IF LegacyText[i] = "\n" THEN CRLF ELSE LegacyText[i]],
                   1, Len(LegacyText))

\* what the file system does during one call: readdir of the data directory
\* fails, readFile of some day files fails, writeFile fails (it rejects
\* before it writes: EACCES, EROFS)
FsOk == [readdirFails |-> FALSE, unreadable |-> {}, writeFails |-> FALSE]
FsEnvs ==
  { FsOk,
    [FsOk EXCEPT !.readdirFails = TRUE],
    [FsOk EXCEPT !.unreadable = {1}],
    [FsOk EXCEPT !.writeFails = TRUE] }

\* every file counted as read
Readable_all(fs, env) == fs

\* the day files whose readFile succeeds: the loops skip the others
Readable(fs, env) == [d \in Days |-> IF d \in env.unreadable THEN NoFile ELSE fs[d]]

\* the files after a loop over the readable ones rewrote one of them
Rewritten(fs, env, next) == [d \in Days |-> IF d \in env.unreadable THEN fs[d] ELSE next[d]]

(* ------------------------------ results -------------------------------- *)
\* a call of the entry store: the arguments it was given (arg) and what it
\* returned or threw (res, entry, list)
Args(id, body, tags, env) == [id |-> id, body |-> body, tags |-> tags, env |-> env]
NoArgs == Args(<<>>, <<>>, <<>>, FsOk)
StoreRet(op, res, arg) ==
  [op |-> op, res |-> res, arg |-> arg, entry |-> NoEntry, list |-> <<>>]
NoStoreCall == StoreRet("none", "none", NoArgs)

\* the ids a caller may pass: an id that list returned, an unknown id, a blank one
UnlistedIds == { <<"zz">>, <<" ">> }
IdInputs(fs) ==
  LET l == listed(fs)
  IN  { l[i].id : i \in 1..Len(l) } \cup UnlistedIds

\* the calls of addEntry in flight: where each one stands and what it holds
Procs == 1..MaxProcs
NoAdd == [pc |-> "idle", body |-> <<>>, tags |-> <<>>, now |-> 0,
          exists |-> FALSE, res |-> "none", entry |-> NoEntry]
NoAdders == [p \in Procs |-> NoAdd]

(* ------------------------ backup (syncBackup) -------------------------- *)
SYNC_SUCCESS == "Sync Success"
SYNC_ERROR == "Sync Error"

buildSyncResult(ok, detail, command) ==
  [ok |-> ok, label |-> IF ok THEN SYNC_SUCCESS ELSE SYNC_ERROR,
   detail |-> detail, command |-> command]
NoSyncResult == buildSyncResult(FALSE, <<>>, "none")

\* the git commands of syncBackup, the text that names each in a result and
\* the detail of a failure that printed nothing
GitCommands == {"add", "status", "commit", "push"}
CommandLine(cmd) ==
  CASE cmd = "add" -> "git add ."
    [] cmd = "status" -> "git status --porcelain"
    [] cmd = "commit" -> "git commit -m \"backup\""
    [] cmd = "push" -> "git push -u origin main"
FailureText(cmd) == <<"git ", cmd, " failed">>

\* what git may print and how its process may end
GitStdout == { <<" ">>, <<"M f", "\n">> }
GitStderr == { <<"e">> }

\* runGitCommand: the value the 'close' handler resolves the promise with
closeResult(code, stdout, stderr) ==
  [code |-> IF code = CodeNull THEN "1" ELSE code,
   stdout |-> Trim(stdout), stderr |-> Trim(stderr)]

\* runGitCommand: the value the 'error' handler resolves the promise with
errorResult(msg, stdout, stderr) ==
  [code |-> "1", stdout |-> Trim(stdout),
   stderr |-> IF msg # <<>> THEN msg ELSE Trim(stderr)]

Or3(a, b, c) == IF a # <<>> THEN a ELSE IF b # <<>> THEN b ELSE c

\* syncBackup committing whatever status printed
afterCommand_alwaysCommit(cmd, res) ==
  IF res.code # "0"
    THEN [next |-> "done",
          result |-> buildSyncResult(FALSE, Or3(res.stderr, res.stdout, FailureText(cmd)),
                                     CommandLine(cmd))]
  ELSE IF cmd = "add" THEN [next |-> "status", result |-> NoSyncResult]
  ELSE IF cmd = "status" THEN [next |-> "commit", result |-> NoSyncResult]
  ELSE IF cmd = "commit" THEN [next |-> "push", result |-> NoSyncResult]
  ELSE [next |-> "done",
        result |-> buildSyncResult(TRUE, Or3(res.stdout, <<>>, <<"git push done">>),
                                   CommandLine(cmd))]

\* syncBackup after the await of one command: return, or the next command
afterCommand(cmd, res) ==
  IF res.code # "0"
    THEN [next |-> "done",
          result |-> buildSyncResult(FALSE, Or3(res.stderr, res.stdout, FailureText(cmd)),
                                     CommandLine(cmd))]
  ELSE IF cmd = "add" THEN [next |-> "status", result |-> NoSyncResult]
  ELSE IF cmd = "status"
    THEN [next |-> IF Trim(res.stdout) # <<>> THEN "commit" ELSE "push",
          result |-> NoSyncResult]
  ELSE IF cmd = "commit" THEN [next |-> "push", result |-> NoSyncResult]
  ELSE [next |-> "done",
        result |-> buildSyncResult(TRUE, Or3(res.stdout, <<>>, <<"git push done">>),
                                   CommandLine(cmd))]

NoSync ==
  [pc |-> "idle", stdout |-> <<>>, stderr |-> <<>>, nOut |-> 0, nErr |-> 0,
   ran |-> <<>>, stale |-> 0, result |-> NoSyncResult]

\* no file, no call
StoreIdle ==
  /\ files = [d \in Days |-> NoFile]
  /\ dirExists = FALSE
  /\ clock = FirstTick
  /\ uuidCount = 0
  /\ updateCount = 0
  /\ sret = NoStoreCall
  /\ adders = NoAdders
  /\ sync = NoSync


(* ------------------------------- Init ---------------------------------- *)
\* no session, no child
AiInit ==
  /\ aiSessions = {}
  /\ sess = <<>>
  /\ kids = <<>>
  /\ ret = NoCall
  /\ quit = FALSE
  /\ gotOutput = <<>>
  /\ historyKid = <<>>
  /\ sendLog = <<>>

\* no call of the argument selection under study
NoQuery == [S |-> newSession(<<>>), input |-> <<>>, plan |-> NoPlan]

Init ==
  /\ AiInit
  /\ pq = NoQuery
  /\ StoreIdle

(* ------------------------------ actions -------------------------------- *)
startAiSession(cliPath) ==
  LET binPath == Trim(cliPath)
      sessionId == Len(sess) + 1
  IN  IF binPath = <<>>
        THEN /\ ret' = Ret("CliPathMissing")
             /\ UNCHANGED <<aiSessions, sess, kids, gotOutput, historyKid, sendLog>>
        ELSE /\ Len(sess) < MaxSessions
             /\ sess' = Append(sess, newSession(binPath))
             /\ aiSessions' = aiSessions \cup {sessionId}
             /\ gotOutput' = Append(gotOutput, FALSE)
             /\ historyKid' = Append(historyKid, <<>>)
             /\ sendLog' = Append(sendLog, "none")
             /\ ret' = Ret("started")
             /\ UNCHANGED kids

SendEnvs == {"ok", "spawnFails", "spawnThrows", "mkdirThrows"}

writeAiSessionInput(id, input, env) ==
  LET found == getAiSessionOrThrow(id)
  IN  IF found # "found"
        THEN /\ env = "ok"
             /\ ret' = Ret(found)
             /\ UNCHANGED <<aiSessions, sess, kids, gotOutput, historyKid, sendLog>>
        ELSE
          LET S == sess[id]
              rej == sendRejection(S)
              text == input
              log == IF Trim(text) # <<>> THEN "nonEmpty"
                     ELSE IF sendLog[id] = "none" THEN "emptyOnly" ELSE sendLog[id]
          IN  /\ sendLog' = [sendLog EXCEPT ![id] = log]
              /\ UNCHANGED <<aiSessions, historyKid>>
              /\ IF rej # "none"
                   THEN /\ env = "ok"
                        /\ ret' = Ret(rej)
                        /\ UNCHANGED <<sess, kids, gotOutput>>
                 ELSE IF isBlankInput(text)
                   THEN /\ env = "ok"
                        /\ ret' = Ret("sent:false")
                        /\ UNCHANGED <<sess, kids, gotOutput>>
                 ELSE IF S.needsBootstrap
                   THEN /\ env = "ok"
                        /\ sess' = [sess EXCEPT ![id] = bootstrap(S, text)]
                        /\ ret' = Ret("sent:true")
                        /\ UNCHANGED <<kids, gotOutput>>
                 ELSE IF env = "mkdirThrows"
                   THEN /\ ret' = Ret("IoError")
                        /\ UNCHANGED <<sess, kids, gotOutput>>
                 ELSE IF env = "spawnThrows"
                   THEN /\ sess' = [sess EXCEPT ![id] = turnBegin(S)]
                        /\ ret' = Ret("SpawnError")
                        /\ UNCHANGED <<kids, gotOutput>>
                 ELSE /\ Len(kids) < MaxKids
                      /\ kids' = Append(kids, newKid(id, text, turnPlan(S, text),
                                   IF env = "ok" THEN "running" ELSE "spawnFailed"))
                      /\ sess' = [sess EXCEPT ![id] =
                                   [turnBegin(S) EXCEPT !.worker = Len(kids) + 1]]
                      /\ gotOutput' = [gotOutput EXCEPT ![id] = FALSE]
                      /\ ret' = Ret("sent:true")

readOutput(id) ==
  LET found == getAiSessionOrThrow(id)
  IN  IF found # "found"
        THEN /\ ret' = Ret(found)
             /\ UNCHANGED <<aiSessions, sess, kids, gotOutput, historyKid, sendLog>>
        ELSE LET r == readAiSession(sess[id])
             IN  /\ sess' = [sess EXCEPT ![id] = r.S]
                 /\ gotOutput' = [gotOutput EXCEPT ![id] = @ \/ r.out.chunk # <<>>]
                 /\ ret' = [Ret("read") EXCEPT !.out = r.out]
                 /\ UNCHANGED <<aiSessions, kids, historyKid, sendLog>>

\* stopAiSession without aiSessions.delete(session.id)
stopAiSession_keepsEntry(id) ==
  LET found == getAiSessionOrThrow(id)
  IN  IF found # "found"
        THEN /\ ret' = Ret(found)
             /\ UNCHANGED <<aiSessions, sess, kids, gotOutput, historyKid, sendLog>>
        ELSE /\ sess' = [sess EXCEPT ![id] = stopSession(@)]
             /\ kids' = kill(kids, sess[id].worker)
             /\ ret' = Ret("stopped")
             /\ UNCHANGED <<aiSessions, gotOutput, historyKid, sendLog>>

stopAiSession(id) ==
  LET found == getAiSessionOrThrow(id)
  IN  IF found # "found"
        THEN /\ ret' = Ret(found)
             /\ UNCHANGED <<aiSessions, sess, kids, gotOutput, historyKid, sendLog>>
        ELSE /\ sess' = [sess EXCEPT ![id] = stopSession(@)]
             /\ kids' = kill(kids, sess[id].worker)
             /\ aiSessions' = aiSessions \ {id}
             /\ ret' = Ret("stopped")
             /\ UNCHANGED <<gotOutput, historyKid, sendLog>>

\* the workers the window-all-closed handler signals
workersOf(keys) == { sess[k].worker : k \in keys } \ {NoWorker}

windowAllClosed ==
  /\ kids' = [i \in 1..Len(kids) |->
                IF i \in workersOf(aiSessions) THEN [kids[i] EXCEPT !.killed = TRUE]
                ELSE kids[i]]
  /\ aiSessions' = {}
  /\ ret' = Ret("closed")
  /\ quit' = TRUE
  /\ UNCHANGED <<sess, gotOutput, historyKid, sendLog>>

\* a callback of child k turned its session object into T
Callback(k, T) ==
  LET sid == kids[k].sid
  IN  /\ sess' = [sess EXCEPT ![sid] = T]
      /\ historyKid' = [historyKid EXCEPT ![sid] =
                          IF Len(T.history) > Len(sess[sid].history) THEN Append(@, k) ELSE @]
      /\ ret' = NoCall
      /\ UNCHANGED <<aiSessions, gotOutput, sendLog>>

onStdoutData(k, chunk) ==
  LET kid == kids[k]
      text == chunk
  IN  /\ kid.status = "running"
      /\ kid.nOut < MaxData
      \* only a turn run with --json prints JSON event lines
      /\ kid.parseThreadIdFromStdout \/ chunk \in PlainChunks
      /\ IF ~kid.parseThreadIdFromStdout
           THEN /\ kids' = [kids EXCEPT ![k].stdoutText = @ \o text, ![k].nOut = @ + 1]
                /\ Callback(k, sess[kid.sid])
           ELSE LET d == DrainLines(sess[kid.sid], kid.stdoutPending \o text)
                IN  /\ kids' = [kids EXCEPT ![k].stdoutText = @ \o text,
                                            ![k].stdoutPending = d.pending,
                                            ![k].nOut = @ + 1]
                    /\ Callback(k, d.S)

onStderrData(k, chunk) ==
  /\ kids[k].status = "running"
  /\ kids[k].nErr < MaxData
  /\ kids' = [kids EXCEPT ![k].stderrText = @ \o chunk, ![k].nErr = @ + 1]
  /\ Callback(k, sess[kids[k].sid])

onErrorEvent(k) ==
  /\ kids[k].status = "spawnFailed"
  /\ kids' = [kids EXCEPT ![k].status = "errored"]
  /\ Callback(k, onError(sess[kids[k].sid], SpawnErrorMessage))

\* the synchronous head of the 'close' handler
closeHead(S, kid) ==
  IF kid.parseThreadIdFromStdout /\ kid.stdoutPending # <<>>
    THEN captureCodexThreadIdFromLine(S, kid.stdoutPending)
    ELSE S

onCloseEvent(k, code) ==
  LET kid == kids[k]
      S0 == closeHead(sess[kid.sid], kid)
      answer == Trim(kid.stdoutText)
  IN  /\ \/ kid.status = "running" /\ code \in ExitCodes /\ (code = CodeNull => kid.killed)
         \/ kid.status = "errored" /\ code = SpawnErrorCode
      /\ IF kid.useOutputFile
           THEN /\ kids' = [kids EXCEPT ![k].status = "closing", ![k].code = code]
                /\ Callback(k, S0)
           ELSE /\ kids' = [kids EXCEPT ![k] = closed(kid)]
                /\ Callback(k, onCloseFinish(S0, kid, code, answer))

\* the continuation of the 'close' handler after reading the output file
onCloseResumed(k, fileText) ==
  LET kid == kids[k]
      answer == Trim(fileText)
  IN  /\ kid.status = "closing"
      /\ kid.code = SpawnErrorCode => fileText = <<>>
      /\ kids' = [kids EXCEPT ![k] = closed(kid)]
      /\ Callback(k, onCloseFinish(sess[kid.sid], kid, kid.code, answer))

\* a handler or callback runs only while the application has not quit
Start(cliPath) == ~quit /\ startAiSession(cliPath) /\ UNCHANGED <<quit, nonAiVars>>
Send(id, input, env) == ~quit /\ writeAiSessionInput(id, input, env) /\ UNCHANGED <<quit, nonAiVars>>
Read(id) == ~quit /\ readOutput(id) /\ UNCHANGED <<quit, nonAiVars>>
Stop(id) == ~quit /\ stopAiSession(id) /\ UNCHANGED <<quit, nonAiVars>>
WindowAllClosed == ~quit /\ windowAllClosed /\ UNCHANGED nonAiVars
StdoutData(k, chunk) == ~quit /\ onStdoutData(k, chunk) /\ UNCHANGED <<quit, nonAiVars>>
StderrData(k, chunk) == ~quit /\ onStderrData(k, chunk) /\ UNCHANGED <<quit, nonAiVars>>
ErrorEvent(k) == ~quit /\ onErrorEvent(k) /\ UNCHANGED <<quit, nonAiVars>>
CloseEvent(k, code) == ~quit /\ onCloseEvent(k, code) /\ UNCHANGED <<quit, nonAiVars>>
CloseResumed(k, fileText) == ~quit /\ onCloseResumed(k, fileText) /\ UNCHANGED <<quit, nonAiVars>>

Next ==
  \/ \E p \in CliPaths : Start(p)
  \/ \E id \in Keys, t \in Inputs, e \in SendEnvs : Send(id, t, e)
  \/ \E id \in Keys : Read(id)
  \/ \E id \in Keys : Stop(id)
  \/ WindowAllClosed
  \/ \E k \in 1..Len(kids), c \in StdoutChunks : StdoutData(k, c)
  \/ \E k \in 1..Len(kids), c \in StderrChunks : StderrData(k, c)
  \/ \E k \in 1..Len(kids) : ErrorEvent(k)
  \/ \E k \in 1..Len(kids), c \in ExitCodes \cup {SpawnErrorCode} : CloseEvent(k, c)
  \/ \E k \in 1..Len(kids), f \in FileTexts : CloseResumed(k, f)

Spec == Init /\ [][Next]_vars

(* ----------------- the argument selection on its own ------------------- *)
\* the turn that the i-th successful send of a session appended to history
Turn(i) == [user |-> <<"q", ToString(i)>>, assistant |-> <<"r", ToString(i)>>]

\* a session as it stands when send calls runAiTurn: bootstrapped, idle, with
\* n turns of history; only a codex session may hold a thread id
PromptSessions ==
  { [newSession(Trim(p)) EXCEPT !.systemInstruction = <<" ", "a">>,
                                !.needsBootstrap = FALSE,
                                !.history = [i \in 1..n |-> Turn(i)],
                                !.codexThreadId = tok] :
      p \in CliPaths \ {<<" ">>}, n \in 0..MaxHistory, tok \in {<<>>, <<"T1">>} }

PromptInit ==
  /\ AiInit
  /\ \E S \in PromptSessions, t \in {<<" ", "a">>, <<"b">>} :
        /\ detectAiCliKind(S.cliPath) = "claude" => S.codexThreadId = <<>>
        /\ pq = [S |-> S, input |-> t, plan |-> NoPlan]
  /\ StoreIdle

\* runAiTurn selects the arguments and the payload for the session
SelectArgs ==
  /\ pq.plan = NoPlan
  /\ pq' = [pq EXCEPT !.plan = turnPlan(pq.S, pq.input)]
  /\ UNCHANGED <<aiVars, storeVars>>

PromptNext == SelectArgs

SpecPrompt == PromptInit /\ [][PromptNext]_vars

(* ------------------- the entry store: calls in sequence --------------- *)
StoreInit ==
  /\ AiInit
  /\ pq = NoQuery
  /\ \/ /\ files = [d \in Days |-> NoFile]
        /\ dirExists = FALSE
        /\ uuidCount = 0
     \/ /\ files \in { [d \in Days |-> IF d = 1 THEN text ELSE NoFile] :
                        text \in {LegacyText, CrlfText} }
        /\ dirExists = TRUE
        \* the id of the first block of the file was drawn by an earlier add
        /\ uuidCount = 1
  /\ clock = FirstTick
  /\ updateCount = 0
  /\ sret = NoStoreCall
  /\ adders = NoAdders
  /\ sync = NoSync

(* ------------------------------ actions -------------------------------- *)
\* the failure caught and reported as not found
onWriteFailure_swallowed(op) == IF op = "delete" THEN "deleted:false" ELSE "updated:false"

\* await fs.promises.writeFile(p, nextText) is in no try block: its rejection
\* is the rejection of deleteEntry, updateEntry
onWriteFailure(op) == "IoError"

\* no body is rejected
rejectsBody_never(body) == FALSE

\* if (!body) throw new Error("本文が空です")
rejectsBody(body) == body = <<>>

\* created always in the date-only form
createdOf_dateOnly(exists, now) == formatDate(now)

\* const created = exists ? formatDateTime(now) : date
createdOf(exists, now) == IF exists THEN formatDateTime(now) ELSE formatDate(now)

\* now: the reading of the clock by new Date() and by Date.now()
addEntry(pbody, ptags, now) ==
  LET call == Args(<<>>, pbody, ptags, FsOk)
      body == Trim(pbody)
      cleanTags == cleanTagsOf(ptags)
      d == DayOf(now)
      date == formatDate(now)
      exists == files[d] # NoFile
      base == IF exists THEN files[d] ELSE <<"# ">> \o date \o <<"\n", "\n">>
      entry == [ id |-> <<UuidAtoms[uuidCount + 1]>>,
                 date |-> date,
                 created |-> createdOf(exists, now),
                 createdAtMs |-> now,
                 tags |-> cleanTags,
                 body |-> body,
                 sourceFile |-> d ]
  IN  IF rejectsBody(body)
        THEN /\ now = clock
             /\ sret' = StoreRet("add", "EmptyBody", call)
             /\ UNCHANGED <<files, dirExists, clock, uuidCount, updateCount>>
        ELSE /\ uuidCount < MaxAdds
             /\ clock <= now
             /\ dirExists' = TRUE
             /\ files' = [files EXCEPT ![d] = base \o formatEntryBlock(entry)]
             /\ clock' = now
             /\ uuidCount' = uuidCount + 1
             /\ sret' = [StoreRet("add", "ok", call) EXCEPT !.entry = entry]
             /\ UNCHANGED updateCount

listEntries(env) ==
  /\ ~env.writeFails
  /\ dirExists' = TRUE
  /\ sret' = [StoreRet("list", "ok", Args(<<>>, <<>>, <<>>, env)) EXCEPT
                !.list = IF env.readdirFails THEN <<>> ELSE listed(Readable(files, env))]
  /\ UNCHANGED <<files, clock, uuidCount, updateCount>>

deleteEntry(pid, env) ==
  LET call == Args(pid, <<>>, <<>>, env)
      id == Trim(pid)
      fs == Readable(files, env)
      r == deleteInFiles(fs, DayFiles(fs, 1), id)
  IN  IF id = <<>>
        THEN /\ env = FsOk
             /\ sret' = StoreRet("delete", "InvalidId", call)
             /\ UNCHANGED <<files, dirExists, clock, uuidCount, updateCount>>
      ELSE /\ dirExists' = TRUE
           /\ UNCHANGED <<clock, uuidCount, updateCount>>
           /\ IF env.readdirFails \/ ~r.found
                THEN /\ ~env.writeFails
                     /\ sret' = StoreRet("delete", "deleted:false", call)
                     /\ UNCHANGED files
              ELSE IF env.writeFails
                THEN /\ sret' = StoreRet("delete", onWriteFailure("delete"), call)
                     /\ UNCHANGED files
              ELSE /\ files' = Rewritten(files, env, r.files)
                   /\ sret' = StoreRet("delete", "deleted:true", call)

updateEntry(pid, pbody, ptags, env) ==
  LET call == Args(pid, pbody, ptags, env)
      id == Trim(pid)
      body == Trim(pbody)
      cleanTags == cleanTagsOf(ptags)
      fs == Readable(files, env)
      r == updateInFiles(fs, DayFiles(fs, 1), id, body, cleanTags)
  IN  IF id = <<>>
        THEN \* the result does not depend on the tags or on the file system
             /\ Payload(pbody, ptags) \in {PlainPayload, BlankPayload}
             /\ env = FsOk
             /\ sret' = StoreRet("update", "InvalidId", call)
             /\ UNCHANGED <<files, dirExists, clock, uuidCount, updateCount>>
      ELSE IF rejectsBody(body)
        THEN /\ env = FsOk
             /\ sret' = StoreRet("update", "EmptyBody", call)
             /\ UNCHANGED <<files, dirExists, clock, uuidCount, updateCount>>
      ELSE /\ dirExists' = TRUE
           /\ UNCHANGED <<clock, uuidCount>>
           /\ IF env.readdirFails \/ ~r.found
                THEN /\ Payload(pbody, ptags) = PlainPayload
                     /\ ~env.writeFails
                     /\ sret' = StoreRet("update", "updated:false", call)
                     /\ UNCHANGED <<files, updateCount>>
              ELSE IF env.writeFails
                THEN /\ Payload(pbody, ptags) = PlainPayload
                     /\ sret' = StoreRet("update", onWriteFailure("update"), call)
                     /\ UNCHANGED <<files, updateCount>>
              ELSE /\ updateCount < MaxUpdates
                   /\ env = FsOk \/ Payload(pbody, ptags) = PlainPayload
                   /\ files' = Rewritten(files, env, r.files)
                   /\ updateCount' = updateCount + 1
                   /\ sret' = StoreRet("update", "updated:true", call)

AddEntry(body, tags, now) == addEntry(body, tags, now) /\ UNCHANGED <<aiVars, pq, adders, sync>>
ListEntries(env) == listEntries(env) /\ UNCHANGED <<aiVars, pq, adders, sync>>
DeleteEntry(id, env) == deleteEntry(id, env) /\ UNCHANGED <<aiVars, pq, adders, sync>>
UpdateEntry(id, body, tags, env) ==
  updateEntry(id, body, tags, env) /\ UNCHANGED <<aiVars, pq, adders, sync>>

\* the last call wrote a file, or no call was made yet
Wrote ==
  \/ sret.op = "none"
  \/ sret.op = "add" /\ sret.res = "ok"
  \/ sret.res \in {"deleted:true", "updated:true"}

\* The sequences of calls in which every call but the last wrote a file: a
\* call that follows one that wrote nothing finds the files as that one
\* found them.
StoreNext ==
  \/ \E p \in Payloads, now \in Ticks : Wrote /\ AddEntry(p.body, p.tags, now)
  \/ \E env \in FsEnvs : Wrote /\ ListEntries(env)
  \/ \E id \in IdInputs(files), env \in FsEnvs :
       /\ Wrote
       /\ env = FsOk \/ id \notin UnlistedIds
       /\ DeleteEntry(id, env)
  \/ \E id \in IdInputs(files), p \in Payloads, env \in FsEnvs :
       /\ Wrote
       /\ env = FsOk \/ (id \notin UnlistedIds /\ p = PlainPayload)
       /\ UpdateEntry(id, p.body, p.tags, env)

SpecStore == StoreInit /\ [][StoreNext]_vars

(* --------------- the entry store: calls of add interleaved ------------- *)
(* addEntry is an async function: between its awaits (mkdir, access,       *)
(* writeFile, appendFile) another call of addEntry may run.               *)
AddInit ==
  /\ AiInit
  /\ pq = NoQuery
  /\ \/ /\ files = [d \in Days |-> NoFile]
        /\ dirExists = FALSE
        /\ uuidCount = 0
     \/ /\ files = [d \in Days |-> IF d = 1 THEN LegacyText ELSE NoFile]
        /\ dirExists = TRUE
        /\ uuidCount = 1
  /\ clock = FirstTick
  /\ updateCount = 0
  /\ sret = NoStoreCall
  /\ adders = NoAdders
  /\ sync = NoSync

\* addEntry up to "await ensureDataDir()"
addCall(p, pbody, ptags) ==
  LET body == Trim(pbody)
  IN  /\ adders[p].pc = "idle"
      /\ UNCHANGED <<files, clock, uuidCount, updateCount, sret>>
      /\ IF rejectsBody(body)
           THEN /\ adders' = [adders EXCEPT ![p] = [@ EXCEPT !.pc = "done", !.res = "EmptyBody"]]
                /\ UNCHANGED dirExists
           ELSE /\ adders' = [adders EXCEPT ![p] =
                                [@ EXCEPT !.pc = "access", !.body = body,
                                          !.tags = cleanTagsOf(ptags)]]
                /\ dirExists' = TRUE

\* new Date(), formatDate and "await fileExists(filePath)"
addAccess(p, now) ==
  /\ adders[p].pc = "access"
  /\ clock <= now
  /\ clock' = now
  /\ adders' = [adders EXCEPT ![p] =
                  [@ EXCEPT !.now = now,
                            !.exists = files[DayOf(now)] # NoFile,
                            !.pc = IF files[DayOf(now)] # NoFile THEN "append" ELSE "write"]]
  /\ UNCHANGED <<files, dirExists, uuidCount, updateCount, sret>>

\* "await fs.promises.writeFile(filePath, header)": creates or truncates the file
addWriteHeader(p) ==
  LET d == DayOf(adders[p].now)
  IN  /\ adders[p].pc = "write"
      /\ files' = [files EXCEPT ![d] = <<"# ">> \o formatDate(adders[p].now) \o <<"\n", "\n">>]
      /\ adders' = [adders EXCEPT ![p] = [@ EXCEPT !.pc = "append"]]
      /\ UNCHANGED <<dirExists, clock, uuidCount, updateCount, sret>>

\* randomUUID, Date.now(), created and "await fs.promises.appendFile(...)"; return entry
addAppend(p) ==
  LET a == adders[p]
      d == DayOf(a.now)
      date == formatDate(a.now)
      entry == [ id |-> <<UuidAtoms[uuidCount + 1]>>,
                 date |-> date,
                 created |-> createdOf(a.exists, a.now),
                 createdAtMs |-> a.now,
                 tags |-> a.tags,
                 body |-> a.body,
                 sourceFile |-> d ]
  IN  /\ a.pc = "append"
      /\ files' = [files EXCEPT ![d] =
                     (IF files[d] = NoFile THEN <<>> ELSE files[d]) \o formatEntryBlock(entry)]
      /\ uuidCount' = uuidCount + 1
      /\ adders' = [adders EXCEPT ![p] = [@ EXCEPT !.pc = "done", !.res = "ok", !.entry = entry]]
      /\ UNCHANGED <<dirExists, clock, updateCount, sret>>

AddCall(p, body, tags) == addCall(p, body, tags) /\ UNCHANGED <<aiVars, pq, sync>>
AddAccess(p, now) == addAccess(p, now) /\ UNCHANGED <<aiVars, pq, sync>>
AddWriteHeader(p) == addWriteHeader(p) /\ UNCHANGED <<aiVars, pq, sync>>
AddAppend(p) == addAppend(p) /\ UNCHANGED <<aiVars, pq, sync>>

AddNext ==
  \/ \E p \in Procs, q \in Payloads : AddCall(p, q.body, q.tags)
  \/ \E p \in Procs, now \in Ticks : AddAccess(p, now)
  \/ \E p \in Procs : AddWriteHeader(p)
  \/ \E p \in Procs : AddAppend(p)

SpecAdd == AddInit /\ [][AddNext]_vars

(* ------------------------- the backup: one call ------------------------ *)
SyncInit ==
  /\ AiInit
  /\ pq = NoQuery
  /\ StoreIdle

\* the promise of the awaited command resolved with res: syncBackup goes on
\* to its return or to the spawn of the next command
resolved(how, code, res) ==
  LET a == afterCommand(sync.pc, res)
  IN  sync' = [sync EXCEPT
                 !.pc = a.next,
                 !.result = a.result,
                 !.ran = Append(@, [cmd |-> sync.pc, how |-> how, exit |-> code, res |-> res]),
                 !.stdout = <<>>, !.stderr = <<>>, !.nOut = 0, !.nErr = 0,
                 !.stale = IF how = "error" THEN @ + 1 ELSE @]

\* syncBackup up to the spawn of git add
syncBackup ==
  /\ sync.pc = "idle"
  /\ dirExists' = TRUE
  /\ sync' = [sync EXCEPT !.pc = "add"]

gitStdoutData(chunk) ==
  /\ sync.pc \in GitCommands
  /\ sync.nOut < MaxGitData
  /\ sync' = [sync EXCEPT !.stdout = @ \o chunk, !.nOut = @ + 1]
  /\ UNCHANGED dirExists

gitStderrData(chunk) ==
  /\ sync.pc \in GitCommands
  /\ sync.nErr < MaxGitData
  /\ sync' = [sync EXCEPT !.stderr = @ \o chunk, !.nErr = @ + 1]
  /\ UNCHANGED dirExists

\* the 'error' event of the awaited child: git could not be spawned
gitError(msg) ==
  /\ sync.pc \in GitCommands
  /\ sync.nOut = 0 /\ sync.nErr = 0
  /\ resolved("error", SpawnErrorCode, errorResult(msg, sync.stdout, sync.stderr))
  /\ UNCHANGED dirExists

\* the 'close' event of the awaited child
gitClose(code) ==
  /\ sync.pc \in GitCommands
  /\ resolved("close", code, closeResult(code, sync.stdout, sync.stderr))
  /\ UNCHANGED dirExists

\* the 'close' event of a child whose 'error' already resolved the promise:
\* finish returns at `if (done) return`
gitStaleClose ==
  /\ sync.stale > 0
  /\ sync' = [sync EXCEPT !.stale = @ - 1]
  /\ UNCHANGED dirExists

SyncFrame == UNCHANGED <<aiVars, pq, files, clock, uuidCount, updateCount, sret, adders>>

SyncBackup == syncBackup /\ SyncFrame
GitStdoutData(chunk) == gitStdoutData(chunk) /\ SyncFrame
GitStderrData(chunk) == gitStderrData(chunk) /\ SyncFrame
GitError(msg) == gitError(msg) /\ SyncFrame
GitClose(code) == gitClose(code) /\ SyncFrame
GitStaleClose == gitStaleClose /\ SyncFrame

SyncNext ==
  \/ SyncBackup
  \/ \E c \in GitStdout : GitStdoutData(c)
  \/ \E c \in GitStderr : GitStderrData(c)
  \/ \E m \in {SpawnErrorMessage} : GitError(m)
  \/ \E c \in ExitCodes : GitClose(c)
  \/ GitStaleClose

SpecSync == SyncInit /\ [][SyncNext]_vars

(* ======================================================================= *)
(*                               properties                                *)
(* ======================================================================= *)
Sessions == 1..Len(sess)
Kids == 1..Len(kids)
KidsOf(s) == { k \in Kids : kids[k].sid = s }
RunningOf(s) == { k \in KidsOf(s) : kids[k].status = "running" }
QueueText(s) == Join(sess[s].chunks, <<>>)

IsPrefix(a, b) == Len(a) <= Len(b) /\ SubSeq(b, 1, Len(a)) = a

\* child k's close handler returns in this step
Closes(k) == kids[k].status # "done" /\ kids'[k].status = "done"

\* a step is a call of send with this key (whatever the other arguments)
SendCall(id) == \E t \in Inputs, e \in SendEnvs : Send(id, t, e)

\* what send returns or throws once it has found the session
SendResults == {"SessionEnded", "SessionBusy", "sent:false", "sent:true", "IoError", "SpawnError"}

(* C1: a registered session has at most one running subprocess, and while  *)
(* one is running the session is busy (so send is rejected).               *)
C1_OneSubprocessAndBusy ==
  \A s \in aiSessions :
    /\ Cardinality(RunningOf(s)) <= 1
    /\ RunningOf(s) # {} => sess[s].busy

(* C2: send on a busy session fails with SessionBusy for every input;      *)
(* no subprocess is spawned, no session object and no child changes.       *)
C2_BusySendRejected ==
  [][ \A id \in aiSessions, t \in Inputs, e \in SendEnvs :
        (sess[id].busy /\ ret'.res \in SendResults /\ Send(id, t, e))
          => /\ ret'.res = "SessionBusy"
             /\ sess' = sess
             /\ kids' = kids
             /\ aiSessions' = aiSessions ]_vars

C2_Witness ==
  /\ ret.res = "SessionBusy"
  /\ \E s \in aiSessions : sess[s].busy /\ RunningOf(s) # {}

C4_FailureClearsResume ==
  [][ /\ \A s \in aiSessions :
           ( /\ s \in aiSessions'
             /\ sess[s].busy /\ ~sess'[s].busy
             /\ sess'[s].history = sess[s].history )
             => sess'[s].codexThreadId = <<>>
      /\ \A id \in Keys, t \in Inputs, e \in SendEnvs :
           ( /\ id \in aiSessions /\ Send(id, t, e)
             /\ Len(kids') = Len(kids) + 1
             /\ sess[id].exitCode \notin {"0", CodeNull} )
             => /\ \A i \in 1..Len(kids'[Len(kids')].args) :
                      kids'[Len(kids')].args[i] # "resume"
                /\ kids'[Len(kids')].prompt = buildAiPrompt(sess[id], t) ]_vars

(* C5: once every subprocess event of the turns of a registered session    *)
(* has been handled and the session is idle, text has been returned by     *)
(* readOutput since the last turn was sent or is waiting in the queue      *)
(* (otherwise no later readOutput can return a non-empty chunk).           *)
C5_TurnYieldsOutput ==
  \A s \in aiSessions :
    ( /\ KidsOf(s) # {}
      /\ \A k \in KidsOf(s) : kids[k].status = "done"
      /\ ~sess[s].busy )
      => (gotOutput[s] \/ QueueText(s) # <<>>)

(* C6: every turn of a live session that completes without appending to    *)
(* history (a soft failure) pushes at least one chunk to the output queue. *)
C6_SoftFailurePushesDiagnostic ==
  [][ \A k \in Kids :
        ( /\ Closes(k)
          /\ sess[kids[k].sid].alive
          /\ sess'[kids[k].sid].history = sess[kids[k].sid].history )
          => Len(sess'[kids[k].sid].chunks) > Len(sess[kids[k].sid].chunks) ]_vars

(* C7: history holds one element per successful turn, in the order the     *)
(* turns were sent (the children that appended to history appear in spawn  *)
(* order).                                                                 *)
C7_HistoryInSendOrder ==
  \A s \in Sessions :
    /\ Len(historyKid[s]) = Len(sess[s].history)
    /\ \A i, j \in 1..Len(historyKid[s]) :
         i < j => historyKid[s][i] < historyKid[s][j]

(* C8: readOutput returns the queued chunks joined in push order, empties  *)
(* the queue and changes no other field; no other step removes, reorders   *)
(* or rewrites a queued chunk (the queue only grows at its end).           *)
C8_ReadDrainsExactlyOnce ==
  [][ \A s \in Sessions :
        IF s \in aiSessions /\ ret'.res = "read" /\ Read(s)
          THEN /\ ret'.res = "read"
               /\ ret'.out.chunk = QueueText(s)
               /\ sess'[s] = [sess[s] EXCEPT !.chunks = <<>>]
          ELSE IsPrefix(sess[s].chunks, sess'[s].chunks) ]_vars

C8_Witness ==
  /\ ret.res = "read"
  /\ ret.out.chunk = <<"\n[log]\n", "e", "\n", "\n[AI failed: code=", "1", "]\n">>
  /\ \E s \in aiSessions : sess[s].chunks = <<>> /\ ~sess[s].busy

(* C9: stop on a registered session clears alive and busy, signals every   *)
(* running subprocess of the session and unregisters it; send, readOutput  *)
(* and stop with a key that is not registered fail with SessionNotFound    *)
(* and change no session.                                                  *)
C9_StopSignalsAndRemoves ==
  [][ \A id \in Keys \ {BlankKey} :
        /\ (id \in aiSessions /\ Stop(id))
             => /\ ~sess'[id].alive /\ ~sess'[id].busy
                /\ id \notin aiSessions'
                /\ \A k \in RunningOf(id) : kids'[k].killed
                /\ ret'.res = "stopped"
        /\ (id \notin aiSessions /\ (Stop(id) \/ Read(id) \/ SendCall(id)))
             => /\ ret'.res = "SessionNotFound"
                /\ sess' = sess /\ aiSessions' = aiSessions /\ kids' = kids ]_vars

(* C10: after window-all-closed no subprocess is still running without     *)
(* having been sent the termination signal.                                *)
C10_ShutdownSignalsEveryWorker ==
  quit => \A k \in Kids : kids[k].status = "running" => kids[k].killed

\* child k's 'error' handler runs in this step
Errors(k) == kids[k].status = "spawnFailed" /\ kids'[k].status = "errored"

\* the chunks pushed to the queue of s in this step
Pushed(s) == SubSeq(sess'[s].chunks, Len(sess[s].chunks) + 1, Len(sess'[s].chunks))

InSeq(x, q) == \E i \in 1..Len(q) : q[i] = x

LogChunk(text) == <<"\n[log]\n">> \o text \o <<"\n">>

\* the turn of child k never had a runner-level failure
NoRunnerFailure(k) ==
  \/ kids[k].status = "running"
  \/ kids[k].status = "closing" /\ kids[k].code # SpawnErrorCode

\* the binary name contains "claude" in any letter case
NameHasClaude(p) == \E i \in 1..Len(Basename(p)) : Basename(p)[i] \in {"claude", "CLAUDE"}

(* C11: the resume token of a session changes only in a step that          *)
(* completes a turn of that session, and it becomes a non-empty value only *)
(* when that turn succeeds (appends to history); stdout data never         *)
(* modifies it.                                                            *)
C11_TokenCommittedAtCompletion ==
  [][ \A s \in Sessions :
        sess'[s].codexThreadId # sess[s].codexThreadId
          => /\ \E k \in KidsOf(s) : Closes(k)
             /\ sess'[s].codexThreadId # <<>>
                  => Len(sess'[s].history) > Len(sess[s].history) ]_vars

C14_SpawnFailureSetsError ==
  [][ /\ \A k \in Kids :
           Errors(k) => /\ ~sess'[kids[k].sid].busy
                        /\ sess'[kids[k].sid].exitCode \notin {"0", CodeNull}
                        /\ sess'[kids[k].sid].error # <<>>
      /\ \A s \in aiSessions :
           (ret'.res = "read" /\ Read(s))
             => /\ ret'.out.exitCode = sess[s].exitCode
                /\ ret'.out.error = sess[s].error
                /\ ret'.out.busy = sess[s].busy
      /\ \A s \in aiSessions :
           (Len(kids') = Len(kids) + 1 /\ kids'[Len(kids')].sid = s)
             => sess'[s].error = <<>>
      /\ \A k \in Kids :
           (kids[k].sid \in aiSessions /\ Closes(k) /\ NoRunnerFailure(k))
             => sess'[kids[k].sid].error = <<>> ]_vars

(* C15: busy of a session goes from true to false only in a stop of that   *)
(* session or in the 'error' handler or the completing 'close' handler of  *)
(* the subprocess of the turn that set it (the session's current worker).  *)
C15_BusyClearedOnlyByOwnTurn ==
  [][ \A s \in Sessions :
        (sess[s].busy /\ ~sess'[s].busy)
          => \/ s \in aiSessions /\ s \notin aiSessions'
             \/ /\ sess[s].worker # NoWorker
                /\ Closes(sess[s].worker) \/ Errors(sess[s].worker) ]_vars

(* C16: a turn of a live session that ends in a soft failure pushes the    *)
(* captured stderr as its diagnostic when stderr is non-empty, and the     *)
(* captured stdout when stderr is empty and stdout is not (when both are   *)
(* empty no captured text is owed).                                        *)
C16_DiagnosticPreference ==
  [][ \A k \in Kids :
        LET s == kids[k].sid
            err == Trim(kids[k].stderrText)
            out == Trim(kids[k].stdoutText)
        IN  ( /\ Closes(k)
              /\ sess[s].alive
              /\ sess'[s].history = sess[s].history )
              => IF err # <<>> THEN InSeq(LogChunk(err), Pushed(s))
                 ELSE IF out # <<>> THEN InSeq(LogChunk(out), Pushed(s))
                 ELSE TRUE ]_vars

(* C17: a session whose binary name contains "claude" never holds a resume *)
(* token, and every turn of it runs with the print argument only and the   *)
(* full assembled prompt; a turn of a session with any other binary name   *)
(* runs with the exec argument grammar.                                    *)
C17_FlavorFixedByName ==
  [][ \A s \in Sessions :
        /\ NameHasClaude(sess[s].cliPath) => sess'[s].codexThreadId = <<>>
        /\ \A t \in Inputs :
             ( /\ Len(kids') = Len(kids) + 1
               /\ kids'[Len(kids')].sid = s
               /\ kids'[Len(kids')].input = t )
               => IF NameHasClaude(sess[s].cliPath)
                    THEN /\ kids'[Len(kids')].args = <<"--print">>
                         /\ kids'[Len(kids')].prompt = buildAiPrompt(sess[s], t)
                    ELSE kids'[Len(kids')].args[1] = "exec" ]_vars

C17_Witness ==
  \E s \in aiSessions :
    /\ sess[s].cliPath = <<"/", "bin", "/", "my-", "CLAUDE">>
    /\ Len(sess[s].history) >= 1
    /\ sess[s].codexThreadId = <<>>
    /\ \E k \in RunningOf(s) : kids[k].args = <<"--print">>

\* the lines of history turns i..n, oldest first
RECURSIVE TurnLines(_, _)
TurnLines(i, n) ==
  IF i > n THEN <<>>
  ELSE << <<"user: ", "q", ToString(i)>>, <<"assistant: ", "r", ToString(i)>>, <<>> >>
         \o TurnLines(i + 1, n)

\* instruction, the turns from..n of the history, then the input
ExpectedPayload(instruction, from, n, input) ==
  Join( << <<"# instruction">>, instruction, <<>> >>
        \o (IF from <= n THEN << <<"# history">> >> \o TurnLines(from, n) ELSE <<>>)
        \o << <<"# input">>, input, <<>>, <<"answer in Japanese">> >>,
        <<"\n">> )

(* C12: for a session with a non-empty resume token the payload is exactly *)
(* the input; otherwise it is the system instruction, then the last 20     *)
(* history turns (all of them if there are fewer) oldest first, then the   *)
(* input, and no older turn.                                               *)
C12_PromptAssembly ==
  pq.plan # NoPlan =>
    LET n == Len(pq.S.history)
        from == IF n > 20 THEN n - 19 ELSE 1
    IN  IF pq.S.codexThreadId # <<>>
          THEN pq.plan.prompt = pq.input
          ELSE pq.plan.prompt = ExpectedPayload(pq.S.systemInstruction, from, n, pq.input)

C12_Witness ==
  /\ pq.plan # NoPlan
  /\ Len(pq.S.history) = 22
  /\ pq.S.codexThreadId = <<>>
  /\ pq.plan.prompt # pq.input

(* ----------------------------- the entry store ------------------------- *)
SetOf(q) == { q[i] : i \in 1..Len(q) }
IdsOf(l) == { l[i].id : i \in 1..Len(l) }
WithId(l, id) == { i \in 1..Len(l) : l[i].id = id }

(* C18: for every body that is non-empty after trimming and every tag     *)
(* list, add(body, tags) followed by list() yields exactly one entry more *)
(* than before; that entry has the id add returned, the body of the input *)
(* up to surrounding whitespace, and exactly the normalized, deduplicated *)
(* tag set of the input.                                                  *)
C18_AddRoundTrip ==
  [][ \A p \in Payloads, now \in Ticks :
        (sret'.op = "add" /\ sret'.res = "ok" /\ AddEntry(p.body, p.tags, now))
          => LET before == listed(files)
                 after == listed(files')
                 new == WithId(after, sret'.entry.id)
             IN  /\ Len(after) = Len(before) + 1
                 /\ Cardinality(new) = 1
                 /\ \A i \in new :
                      /\ Trim(after[i].body) = Trim(p.body)
                      /\ SetOf(after[i].tags) = SetOf(cleanTagsOf(p.tags)) ]_vars

(* C19: for every entry listed with id i, after update(i, newBody,        *)
(* newTags) returns updated=true the entry listed under i has the same    *)
(* id, date, created and createdAtMs as before, and its body and tags are *)
(* the new cleaned, normalized values.                                    *)
C19_UpdatePreservesIdentity ==
  [][ \A pid \in IdInputs(files), p \in Payloads :
        (sret'.op = "update" /\ sret'.res = "updated:true"
           /\ UpdateEntry(pid, p.body, p.tags, FsOk))
          => LET before == listed(files)
                 after == listed(files')
             IN  \A i \in WithId(before, Trim(pid)) :
                   \E j \in WithId(after, Trim(pid)) :
                     /\ after[j].date = before[i].date
                     /\ after[j].created = before[i].created
                     /\ after[j].createdAtMs = before[i].createdAtMs
                     /\ after[j].body = Trim(p.body)
                     /\ SetOf(after[j].tags) = SetOf(cleanTagsOf(p.tags)) ]_vars

\* the entries of l other than those with this id, in the order of l
RECURSIVE Without(_, _)
Without(l, id) ==
  IF l = <<>> THEN <<>>
  ELSE (IF Head(l).id = id THEN <<>> ELSE <<Head(l)>>) \o Without(Tail(l), id)

(* C20: after delete(id) returns deleted=true, list() contains no entry   *)
(* with that id, and every other entry, in the same file and in other     *)
(* files, is returned unchanged (id, created, createdAtMs, tags, body)    *)
(* and in the same relative order.                                        *)
C20_DeleteIsExact ==
  [][ \A pid \in IdInputs(files) :
        (sret'.op = "delete" /\ sret'.res = "deleted:true" /\ DeleteEntry(pid, FsOk))
          => /\ Trim(pid) \notin IdsOf(listed(files'))
             /\ listed(files') = Without(listed(files), Trim(pid)) ]_vars

\* the blocks the codec finds in the file of day d, as texts
BlocksOf(fs, d) ==
  IF fs[d] = NoFile THEN <<>>
  ELSE LET t == normalizeNewlines(fs[d])
           ms == Matches(t, 1, FALSE)
       IN  SubSeq([i \in 1..Len(ms) |-> SubSeq(t, ms[i].index, ms[i].end)], 1, Len(ms))

(* C21: under any interleaving of add operations, every entry returned by *)
(* a completed add is present in its day file afterwards, and an add      *)
(* never removes or alters a block that was already in the file.          *)
C21_AddNeverTruncates ==
  [][ /\ \A p \in Procs :
           (adders'[p].pc = "done" /\ adders'[p].res = "ok")
             => adders'[p].entry.id \in IdsOf(listed(files'))
      /\ \A d \in Days : IsPrefix(BlocksOf(files, d), BlocksOf(files', d)) ]_vars

\* the entries of all day files in encounter order: files by name, blocks in file order
Encountered(fs) == EntriesOfFiles(fs, DayFiles(fs, 1))
\* the place of entry e in the sequence l (the entries of l are distinct)
PlaceIn(l, e) == CHOOSE k \in 1..Len(l) : l[k] = e

(* C22: list() returns all entries of all day files in descending order   *)
(* of createdAtMs; entries with equal createdAtMs keep their encounter    *)
(* order (files ascending by name, blocks in file order); so entries      *)
(* added at increasing timestamps in two day files come back newest first.*)
C22_ListSortedStable ==
  [][ (sret'.op = "list" /\ ListEntries(FsOk))
        => LET l == sret'.list
               e == Encountered(files)
           IN  /\ Len(l) = Len(e)
               /\ SetOf(l) = SetOf(e)
               /\ \A i, j \in 1..Len(l) :
                    i < j => \/ l[i].createdAtMs > l[j].createdAtMs
                             \/ /\ l[i].createdAtMs = l[j].createdAtMs
                                /\ PlaceIn(e, l[i]) < PlaceIn(e, l[j]) ]_vars

\* list returned entries of two day files, two of them with the same
\* createdAtMs, in an order that is not the encounter order
C22_Witness ==
  /\ sret.op = "list"
  /\ sret.list # Encountered(files)
  /\ Len(sret.list) >= 3
  /\ \E i, j \in 1..Len(sret.list) :
       /\ sret.list[i].sourceFile # sret.list[j].sourceFile
       /\ sret.list[i].createdAtMs > sret.list[j].createdAtMs
  /\ \E i \in 1..(Len(sret.list) - 1) :
       sret.list[i].createdAtMs = sret.list[i + 1].createdAtMs

\* a tag list without an empty tag and without two equal tags
CleanTagList(ts) ==
  /\ \A i \in 1..Len(ts) : ts[i] # <<>>
  /\ \A i, j \in 1..Len(ts) : ts[i] = ts[j] => i = j

\* the spellings of tag x the claim names: plain, with white space around it,
\* with one leading marker
TagForms(x) == { <<x>>, <<" ", x, " ">> } \cup { <<m, x>> : m \in TagMarkers }

\* only PlainPayload has the body "b": its six tag spellings are the tags t and u
PlainTags == << <<"t">>, <<"u">> >>
StoresPlain(e) == e.body = Trim(PlainPayload.body)

\* the header of the block has no tag
m_tags_blank(m) == Trim(m.meta["tags"]) = <<>>

\* the tag lists as the day file of day d stores them: the "tags:" line of
\* each block, cut at its commas, each part without surrounding white space
StoredTagLists(fs, d) ==
  IF fs[d] = NoFile THEN <<>>
  ELSE LET t == normalizeNewlines(fs[d])
           ms == Matches(t, 1, FALSE)
           parts(m) == SplitComma(m.meta["tags"])
       IN  SubSeq([i \in 1..Len(ms) |->
                     IF m_tags_blank(ms[i]) THEN <<>>
                     ELSE SubSeq([k \in 1..Len(parts(ms[i])) |-> Trim(parts(ms[i])[k])],
                                 1, Len(parts(ms[i])))],
                  1, Len(ms))

(* C23: a tag with surrounding white space, with one leading marker ("#"  *)
(* or the full-width one) or plain normalizes to the same tag; empty      *)
(* results are dropped; and for every tag list given to add or update no  *)
(* stored entry's tag list holds an empty string or two equal tags:       *)
(* neither as add returns it, nor as the file holds it, nor as list       *)
(* decodes it.                                                            *)
C23_TagNormalization ==
  LET l == listed(files)
  IN  /\ \A f \in TagForms("t") : normalizeTag(f) = <<"t">>
      /\ \A m \in TagMarkers : normalizeTag(<<m>>) = <<>>
      /\ \A i \in 1..Len(l) :
           /\ CleanTagList(l[i].tags)
           /\ StoresPlain(l[i]) => l[i].tags = PlainTags
      /\ (sret.op = "add" /\ sret.res = "ok")
           => /\ CleanTagList(sret.entry.tags)
              /\ StoresPlain(sret.entry) => sret.entry.tags = PlainTags
      /\ \A d \in Days :
           \A i \in 1..Len(StoredTagLists(files, d)) :
             CleanTagList(StoredTagLists(files, d)[i])

\* the step is a call of add that returned an entry
AddStep == sret'.op = "add" /\ sret'.res = "ok" /\ uuidCount' = uuidCount + 1

(* C24 as stated: in any sequence of add and delete operations, add sets  *)
(* created to the date-only form exactly when the entry is the first      *)
(* entry of that day's file, and to the date+time form otherwise.         *)
C24_CreatedByFirstEntry ==
  [][ AddStep =>
        LET d == sret'.entry.sourceFile
            first == BlocksOf(files, d) = <<>>
        IN  sret'.entry.created = IF first THEN formatDate(clock')
                                           ELSE formatDateTime(clock') ]_vars

(* C24 amended: add sets created to the date-only form exactly when that  *)
(* day's file did not exist when add was called, and to the date+time     *)
(* form (minute precision, zero-padded) whenever the file existed, also   *)
(* when it held no entry.                                                 *)
C24_CreatedByFileExistence ==
  [][ AddStep =>
        LET d == sret'.entry.sourceFile
        IN  /\ d = DayOf(clock')
            /\ sret'.entry.date = formatDate(clock')
            /\ formatDate(clock') # formatDateTime(clock')
            /\ sret'.entry.created = IF files[d] = NoFile THEN formatDate(clock')
                                                            ELSE formatDateTime(clock') ]_vars

\* add returned the date+time form for the only entry of its day file
C24_Witness ==
  /\ sret.op = "add"
  /\ sret.res = "ok"
  /\ sret.entry.created = formatDateTime(sret.entry.createdAtMs)
  /\ Len(BlocksOf(files, sret.entry.sourceFile)) = 1
  /\ sret.entry.id \in IdsOf(listed(files))

(* C25: add and update reject a body that is empty after trimming with a  *)
(* validation failure, and the rejected call changes nothing: no          *)
(* directory or file is created, no file is written, and list() returns   *)
(* the same entries as before.                                            *)
C25_EmptyBodyRejected ==
  [][ /\ (sret'.op = "add" /\ AddEntry(BlankPayload.body, BlankPayload.tags, clock))
           => /\ sret'.res = "EmptyBody"
              /\ files' = files
              /\ dirExists' = dirExists
              /\ listed(files') = listed(files)
      /\ \A id \in UnlistedIds \cup { <<LegacyUuid>> } :
           (sret'.op = "update" /\ UpdateEntry(id, BlankPayload.body, BlankPayload.tags, FsOk))
             => /\ sret'.res \in {"EmptyBody", "InvalidId"}
                /\ Trim(id) # <<>> => sret'.res = "EmptyBody"
                /\ files' = files
                /\ dirExists' = dirExists
                /\ listed(files') = listed(files) ]_vars

\* update with a blank body was rejected before the data directory existed
C25_Witness ==
  /\ sret.op = "update"
  /\ sret.res = "EmptyBody"
  /\ ~dirExists
  /\ \A d \in Days : files[d] = NoFile

\* some block of some day file has the line "id: <id>"
ContainsId(fs, id) ==
  \E d \in Days :
    /\ fs[d] # NoFile
    /\ LET ms == Matches(normalizeNewlines(fs[d]), 1, FALSE)
       IN  \E i \in 1..Len(ms) : ms[i].meta["id"] = id

(* C26: update(id, ...) and delete(id) for an id that no day file         *)
(* contains return the not-found result (updated=false / deleted=false)   *)
(* instead of raising an error, and leave every day file unchanged.       *)
C26_NotFoundIsAResult ==
  [][ LET id == Trim(sret'.arg.id)
          called == \/ sret'.op = "delete"
                    \/ sret'.op = "update" /\ ~rejectsBody(Trim(sret'.arg.body))
      IN  (called /\ id # <<>> /\ ~ContainsId(files, id))
            => /\ sret'.op = "delete" => sret'.res = "deleted:false"
               /\ sret'.op = "update" => sret'.res = "updated:false"
               /\ files' = files ]_vars

\* delete returned not-found on a store that holds entries
C26_Witness ==
  /\ sret.op = "delete"
  /\ sret.res = "deleted:false"
  /\ listed(files) # <<>>

\* the line ends of a text
LineEnds(t) == { t[i] : i \in { k \in 1..Len(t) : t[k] \in {"\n", CRLF} } }

(* C27: when update or delete rewrites a day file whose text uses CRLF    *)
(* line endings the rewritten file uses CRLF, and when it uses LF the     *)
(* rewritten file uses LF; entries decode identically from either style.  *)
C27_LineEndingsPreserved ==
  [][ sret'.res \in {"deleted:true", "updated:true"}
        => /\ parseEntriesFromText(CrlfText, <<DateAtoms[1]>>, 1)
                = parseEntriesFromText(LegacyText, <<DateAtoms[1]>>, 1)
           /\ \A d \in Days :
                (files[d] # NoFile /\ files'[d] # files[d])
                  => /\ LineEnds(files[d]) = {CRLF} => LineEnds(files'[d]) \subseteq {CRLF}
                     /\ LineEnds(files[d]) = {"\n"} => LineEnds(files'[d]) \subseteq {"\n"} ]_vars

\* the blocks of the file of day d as the file holds them, each with the id
\* of its header; the text is cut where the codec finds the blocks
RawBlocks(fs, d) ==
  IF fs[d] = NoFile THEN <<>>
  ELSE LET ms == Matches(normalizeNewlines(fs[d]), 1, FALSE)
       IN  SubSeq([i \in 1..Len(ms) |->
                     [id |-> ms[i].meta["id"],
                      text |-> SubSeq(fs[d], ms[i].index, ms[i].end)]],
                  1, Len(ms))

RECURSIVE OtherBlocks(_, _)
OtherBlocks(bs, id) ==
  IF bs = <<>> THEN <<>>
  ELSE (IF Head(bs).id = id THEN <<>> ELSE <<Head(bs)>>) \o OtherBlocks(Tail(bs), id)

\* the ids of the blocks, with "" in the place of the blocks with another id
RECURSIVE PlacesOf(_, _)
PlacesOf(bs, id) ==
  IF bs = <<>> THEN <<>>
  ELSE <<Head(bs).id = id>> \o PlacesOf(Tail(bs), id)

(* C28: update and delete rewrite at most one day file, the first file in *)
(* file-name order that contains the id; every other file is untouched,   *)
(* the updated entry stays in the same file at the same position among    *)
(* that file's blocks, and every other block of the rewritten file is     *)
(* unchanged.                                                             *)
C28_OneFileRewritten ==
  [][ sret'.res \in {"deleted:true", "updated:true"}
        => LET id == Trim(sret'.arg.id)
               holders == { d \in Days : \E i \in 1..Len(RawBlocks(files, d)) :
                                           RawBlocks(files, d)[i].id = id }
               first == FirstIdx(holders \ sret'.arg.env.unreadable)
           IN  /\ first # 0
               /\ \A d \in Days \ {first} : files'[d] = files[d]
               /\ OtherBlocks(RawBlocks(files', first), id)
                    = OtherBlocks(RawBlocks(files, first), id)
               /\ sret'.op = "update"
                    => PlacesOf(RawBlocks(files', first), id)
                         = PlacesOf(RawBlocks(files, first), id) ]_vars

(* C29: if update or delete finds the id in a file and writing that file  *)
(* back fails, the operation raises a hard error to the caller; it never  *)
(* returns updated=false / deleted=false and never returns success.       *)
C29_WriteFailureIsAnError ==
  [][ LET id == Trim(sret'.arg.id)
          env == sret'.arg.env
          called == \/ sret'.op = "delete"
                    \/ sret'.op = "update" /\ ~rejectsBody(Trim(sret'.arg.body))
      IN  (called /\ id # <<>> /\ env.writeFails /\ ~env.readdirFails
             /\ \E d \in Days \ env.unreadable :
                  \E i \in 1..Len(RawBlocks(files, d)) : RawBlocks(files, d)[i].id = id)
            => /\ sret'.res = "IoError"
               /\ sret'.res \notin {"deleted:false", "updated:false",
                                    "deleted:true", "updated:true"} ]_vars

\* update and delete each met a failing write of the file that holds the id
C29_Witness ==
  /\ sret.op \in {"delete", "update"}
  /\ sret.res = "IoError"
  /\ sret.arg.env.writeFails
  /\ ContainsId(files, Trim(sret.arg.id))

C31_ListedIdsAddressable ==
  [][ (sret'.op \in {"delete", "update"} /\ sret'.arg.env = FsOk)
        => LET id == sret'.arg.id
           IN  (/\ id \in IdsOf(listed(files))
                /\ sret'.op = "update" => ~rejectsBody(Trim(sret'.arg.body)))
                 => sret'.res = (IF sret'.op = "delete" THEN "deleted:true"
                                                        ELSE "updated:true") ]_vars

(* C32: the Entry value add(body, tags) returns equals, in id, date,      *)
(* created, createdAtMs, tags and body, the entry list() returns for that *)
(* id immediately afterwards.                                             *)
C32_AddReturnsListedEntry ==
  [][ (sret'.op = "add" /\ sret'.res = "ok")
        => LET e == sret'.entry
               after == listed(files')
           IN  \E i \in WithId(after, e.id) :
                 /\ after[i].date = e.date
                 /\ after[i].created = e.created
                 /\ after[i].createdAtMs = e.createdAtMs
                 /\ after[i].tags = e.tags
                 /\ after[i].body = e.body ]_vars

\* the errors send raises to its caller
SendErrors ==
  {"InvalidSessionId", "SessionNotFound", "SessionEnded", "SessionBusy", "IoError", "SpawnError"}

\* the children of session s whose process or handlers are still at work
ActiveOf(s) ==
  { k \in KidsOf(s) : kids[k].status \in {"running", "spawnFailed", "errored", "closing"} }

(* C33: whenever send raises an error to its caller (unknown session,     *)
(* busy session, synchronous failure while preparing the data directory   *)
(* or spawning), it starts no turn and leaves the session's busy flag as  *)
(* it was; a registered session is never left busy by send while no       *)
(* subprocess of it is running or completing.                             *)
C33_FailedSendLeavesBusy ==
  [][ \A id \in Keys, t \in Inputs, e \in SendEnvs :
        (ret'.res \in SendErrors /\ Send(id, t, e))
          => /\ kids' = kids
             /\ id \in aiSessions
                  => /\ sess'[id].busy = sess[id].busy
                     /\ sess'[id].busy => ActiveOf(id)' # {} ]_vars

(* C34: every session in the registry has alive=true in every reachable   *)
(* state (stop clears the flag and removes the session in the same step), *)
(* so readOutput never returns alive=false and send never fails with      *)
(* SessionEnded; a stopped session is only ever reported as               *)
(* SessionNotFound.                                                       *)
C34_RegisteredSessionsAlive ==
  [][ /\ \A s \in aiSessions' : sess'[s].alive
      /\ ret'.res # "SessionEnded"
      /\ ret'.res = "read" => ret'.out.alive
      /\ \A id \in Sessions :
           (~sess[id].alive /\ ret'.res # "none"
              /\ (SendCall(id) \/ Read(id) \/ Stop(id)))
             => ret'.res = "SessionNotFound" /\ sess' = sess /\ kids' = kids ]_vars

\* a call addressed a session that stop had removed
C34_Witness ==
  /\ ret.res = "SessionNotFound"
  /\ ~quit
  /\ \E s \in Sessions : s \notin aiSessions /\ ~sess[s].alive

(* C35: send with an input that is empty after trimming, on a live        *)
(* non-busy session, returns sent=false and changes nothing: no           *)
(* subprocess is spawned, and if the session still needs its bootstrap    *)
(* the flag stays set and systemInstruction stays empty, so the next      *)
(* non-empty send is still the bootstrap turn.                            *)
C35_BlankSendChangesNothing ==
  [][ \A id \in aiSessions, t \in Inputs, e \in SendEnvs :
        (ret'.res \in SendResults /\ ~sess[id].busy /\ sess[id].alive /\ Send(id, t, e))
          => /\ Trim(t) = <<>>
                  => /\ ret'.res = "sent:false"
                     /\ sess' = sess
                     /\ kids' = kids
                     /\ aiSessions' = aiSessions
             /\ (Trim(t) # <<>> /\ sendLog[id] = "emptyOnly")
                  => /\ sess[id].needsBootstrap
                     /\ sess[id].systemInstruction = <<>>
                     /\ kids' = kids
                     /\ sess'[id].systemInstruction = t
                     /\ ~sess'[id].needsBootstrap
                     /\ ret'.res = "sent:true" ]_vars

\* a blank send was answered on a session that still awaits its bootstrap
C35_Witness ==
  /\ ret.res = "sent:false"
  /\ \E s \in aiSessions :
       /\ sendLog[s] = "emptyOnly"
       /\ sess[s].needsBootstrap
       /\ sess[s].systemInstruction = <<>>
       /\ ~sess[s].busy

(* C36: after stop(sessionId) has returned, subprocess events of that     *)
(* session that arrive later (stdout data, 'error', 'close') never append *)
(* to its history, never push to its output queue, and never start        *)
(* another subprocess.                                                    *)
C36_StoppedSessionIsInert ==
  [][ \A k \in Kids :
        LET s == kids[k].sid
        IN  (/\ ~sess[s].alive
             /\ s \notin aiSessions
             /\ kids'[k] # kids[k]
             /\ ret'.res = "none")
              => /\ sess'[s].history = sess[s].history
                 /\ sess'[s].chunks = sess[s].chunks
                 /\ Len(kids') = Len(kids) ]_vars

\* the order of the git commands of a backup
GitOrder(cmd) ==
  CASE cmd = "add" -> 1 [] cmd = "status" -> 2 [] cmd = "commit" -> 3 [] cmd = "push" -> 4

\* the command has ended and did not exit with code 0
GitFailed(r) == r.how = "error" \/ r.exit # "0"

(* C37: syncBackup runs its git commands in the fixed order add, status,  *)
(* commit, push, running commit only when status reported changes; it     *)
(* stops at the first command that exits non-zero, runs no later command, *)
(* and returns a Sync Error result naming that command; it returns Sync   *)
(* Success only if push exited with code 0.                               *)
C37_BackupCommandOrder ==
  LET ran == sync.ran
      n == Len(ran)
      cmds == [i \in 1..n |-> ran[i].cmd] \o
              (IF sync.pc \in GitCommands THEN <<sync.pc>> ELSE <<>>)
      reported == \E i \in 1..n :
                    ran[i].cmd = "status" /\ ~GitFailed(ran[i]) /\ Trim(ran[i].res.stdout) # <<>>
  IN  /\ \A i \in 1..Len(cmds) : \A j \in 1..Len(cmds) :
           i < j => GitOrder(cmds[i]) < GitOrder(cmds[j])
      /\ cmds # <<>> => cmds[1] = "add"
      /\ \A i \in 1..Len(cmds) : cmds[i] = "push" => (i > 1 /\ cmds[i - 1] \in {"status", "commit"})
      /\ \A i \in 1..Len(cmds) : cmds[i] = "commit" => (i > 1 /\ cmds[i - 1] = "status" /\ reported)
      /\ \A i \in 1..Len(cmds) : (cmds[i] = "push" /\ reported) => cmds[i - 1] = "commit"
      /\ \A i \in 1..n :
           GitFailed(ran[i])
             => /\ i = Len(cmds)
                /\ sync.pc = "done"
                /\ sync.result.label = SYNC_ERROR
                /\ ~sync.result.ok
                /\ sync.result.command = CommandLine(ran[i].cmd)
      /\ sync.result.label = SYNC_SUCCESS
           => /\ sync.pc = "done"
              /\ n > 0 /\ ran[n].cmd = "push" /\ ran[n].how = "close" /\ ran[n].exit = "0"
      /\ sync.pc = "done" => sync.result.label \in {SYNC_SUCCESS, SYNC_ERROR}
      /\ (sync.pc = "done" /\ \A i \in 1..n : ~GitFailed(ran[i]))
           => sync.result.label = SYNC_SUCCESS

\* status reported changes, commit ran and failed, push never ran
C37_Witness ==
  /\ sync.pc = "done"
  /\ Len(sync.ran) = 3
  /\ sync.ran[3].cmd = "commit"
  /\ sync.ran[3].exit = "1"
  /\ sync.result.label = SYNC_ERROR

====
